---- MODULE Spec2Model ----
(***************************************************************************)
(* Verification model of NanoForge (nanoforge/src).                        *)
(*                                                                         *)
(* The module holds several specifications over one set of variables:      *)
(*   Spec      HotFunction (hot_function.rs) over epoch-based reclamation  *)
(*   SpecMem   DualMappedMemory construction and drop (jit_memory.rs)      *)
(*   SpecSig   run_safely / signal_handler (safety.rs)                     *)
(* Each specification leaves the variables of the others unchanged.        *)
(***************************************************************************)
EXTENDS Integers, Sequences, FiniteSets, TLC

VARIABLES
    \* ---- HotFunction / crossbeam epoch (hot_function.rs) ----
    current,        \* HotFunction.current: the install number of the published JittedCode
    created,        \* number of JittedCode records built by update so far
    lastReturned,   \* highest install number whose update() has returned
    hpc,            \* per thread: position inside call() / update()
    localEpoch,     \* per thread: epoch the thread is pinned in, or NoEpoch
    held,           \* per thread: the record `shared` loaded inside call(), or NoRec
    floorRec,       \* per thread: lastReturned when the thread's call() started
    updOld,         \* per thread: `old` returned by the swap inside update(); the record
                    \* the update published is its successor in the modification order
    globalEpoch,    \* crossbeam global epoch
    garbage,        \* deferred destructions: set of [rec, epoch]
    freed,          \* records whose JittedCode (and DualMappedMemory) was dropped
    retiredHeld,    \* records that some call() still held when they were swapped out
    \* ---- DualMappedMemory (jit_memory.rs) ----
    mpc,            \* per memory object: how far DualMappedMemory::new / drop has got
    mappings,       \* the live virtual mappings: set of [mem, view, prot]
    fdOpen,         \* memory objects whose memfd is open
    written,        \* per memory object: code was emitted through rw_ptr
    executed,       \* per memory object: the code was entered through rx_ptr
    acquired,       \* per memory object: the resources new() obtained (fd, rw, rx)
    released,       \* per memory object and resource: close / munmap calls made on it
    \* ---- run_safely / signal_handler (safety.rs) ----
    jmpBuf,         \* GLOBAL_JMP_BUF: the thread whose jb it points to, or NullBuf
    spc,            \* per thread: position inside run_safely
    runs,           \* per thread: run_safely calls started
    outcome,        \* per thread: where the last fatal signal on the thread landed
    \* ---- allocate_registers (compiler.rs) ----
    aIntervals,     \* the argument `intervals`: live intervals sorted by start
    aIdx,           \* the loop index i of `for i in 0..intervals.len()`
    aState,         \* the locals active, map, stack_slot_count
    aPhase,         \* "loop" while the allocator runs, "done" once it returned
    \* ---- compiled programs (compiler.rs, optimizer.rs, assembler/x64.rs) ----
    prog,           \* the program: an index into Programs
    arg,            \* the input n of the run
    level,          \* the optimization level of the compilation
    code,           \* the code the builder emitted
    meta,           \* per function: gpr_map, intervals, instructions, stack_size
    cpu,            \* the machine executing the code
    frames,         \* per active invocation: what the IR says of its registers
    results,        \* the outcomes of the runs at the levels 0, 1, ...
    \* ---- ThreadSafeOptimizer (thread_safe.rs, ai_optimizer.rs) ----
    tsLock,         \* the RwLock around the ContextualBandit: its writer, or 0
    tsSucc,         \* per bucket and arm: VariantBandit.successes, in quarters
    tsFail,         \* per bucket and arm: VariantBandit.failures, in quarters
    tsSerial,       \* the bandits after the updates so far, applied one at a time
                    \* in the order the lock was taken
    tsPc,           \* per thread: position inside update()
    tsReq,          \* per thread: the arguments of its update()
    tsTmp,          \* per thread: the value loaded for the += in progress
    tsDone,         \* per thread: update() and select() calls that returned
    tsSel,          \* per bucket and arm: VariantBandit.selections
    tsSelN,         \* per bucket: the select() calls that returned
    \* ---- owner of the HotFunction (hot_function.rs) ----
    hotDropped,     \* the HotFunction value has gone out of scope
    \* ---- variants and C handles (variant_generator.rs, ffi.rs) ----
    vmMapped,       \* the DualMappedMemory values of variants that are mapped
    vmNext,         \* number of variant memories created so far
    vmVecs,         \* the Vec<CompiledVariant> values held by Rust callers
    nanoFuncs,      \* the NanoFunction handles held by C callers
    ptrCalls,       \* the invocations of entry pointers made so far
    \* ---- liveness_analysis on its own (compiler.rs) ----
    lvInstrs,       \* func.instructions
    lvIntervals,    \* the Vec<Interval> returned
    lvPhase,        \* "parsed" before the call, "done" after it
    \* ---- vec_add_i64 (array_ops.rs) ----
    vaIn,           \* the call: lengths of a, b, c, the scale of b, has_avx2
    vaN,            \* n = a.len().min(b.len()).min(c.len())
    vaI,            \* the index register (rcx) or the loop variable i
    vaPc,           \* where the call is: start, loop16, loop4, scalar, fallback, done
    vaC,            \* the memory at c, by element index (also past its end)
    vaLog,          \* per element index of c: the loops that stored to it, in order
    vaReads,        \* the element indices loaded from a or b
    \* ---- VariantGenerator::generate_variants (variant_generator.rs) ----
    gvIn,           \* the call: the program and the CPU features
    gvCompile,      \* per optimization level: how compile_program ends on the program
    gvIdx,          \* the configuration the loop is at
    gvVariants,     \* `variants`: the configurations compiled so far
    gvSkipped,      \* the configurations whose compile_variant returned Err
    gvStatus,       \* running, Ok, Err, or panicked
    \* ---- ContextualBandit used by one caller (ai_optimizer.rs) ----
    bdTab,          \* per bucket and arm: successes and failures, in quarters
    bdReq,          \* the arguments of the last update_with_performance
    bdN,            \* the update_with_performance calls made
    bdLo,           \* per bucket and arm: the least reward it received
    bdHi,           \* per bucket and arm: the greatest reward it received
    \* ---- Optimizer::optimize_function (optimizer.rs) ----
    opIn,           \* the call: the function's instructions and the level
    opFunc,         \* func.instructions
    opPc,           \* loop (inside `while changed`), returned, or panicked
    \* ---- run_safely with nested calls and unwinding (safety.rs) ----
    rsBuf,          \* GLOBAL_JMP_BUF: 0, or the number of the invocation whose jb it names
    rsStack,        \* per thread: its run_safely invocations in progress, innermost last
    rsCalls,        \* run_safely calls made so far
    rsJump,         \* what signal_handler did last: none, live, foreign, dead or abort
    \* ---- Avx512Encoder (assembler/avx512.rs) ----
    evIn,           \* the call: load or store, zmm register, base, index, disp
    evBuf           \* Avx512Encoder.buffer

hotVars == <<current, created, lastReturned, hpc, localEpoch, held, floorRec,
             updOld, globalEpoch, garbage, freed, retiredHeld>>

memVars == <<mpc, mappings, fdOpen, written, executed, acquired, released>>
sigVars == <<jmpBuf, spc, runs, outcome>>
allocVars == <<aIntervals, aIdx, aState, aPhase>>
machVars == <<prog, arg, level, code, meta, cpu, frames, results>>

tsVars == <<tsLock, tsSucc, tsFail, tsSerial, tsPc, tsReq, tsTmp, tsDone, tsSel, tsSelN>>

\* the variables of the parts above, and those of the parts added after them
coreVars == <<hotVars, memVars, sigVars, allocVars, machVars>>
lifeVars == <<hotDropped>>
ffiVars == <<vmMapped, vmNext, vmVecs, nanoFuncs, ptrCalls>>
liveVars == <<lvInstrs, lvIntervals, lvPhase>>
vaVars == <<vaIn, vaN, vaI, vaPc, vaC, vaLog, vaReads>>
gvVars == <<gvIn, gvCompile, gvIdx, gvVariants, gvSkipped, gvStatus>>
bdVars == <<bdTab, bdReq, bdN, bdLo, bdHi>>
opVars == <<opIn, opFunc, opPc>>
rsVars == <<rsBuf, rsStack, rsCalls, rsJump>>
evVars == <<evIn, evBuf>>
extVars == <<tsVars, lifeVars, ffiVars, liveVars, vaVars, gvVars, bdVars, opVars, rsVars, evVars>>
exceptTs == <<coreVars, lifeVars, ffiVars, liveVars, vaVars, gvVars, bdVars, opVars, rsVars, evVars>>
exceptLife == <<memVars, sigVars, allocVars, machVars, tsVars, ffiVars, liveVars, vaVars, gvVars, bdVars, opVars, rsVars, evVars>>
exceptFfi == <<coreVars, tsVars, lifeVars, liveVars, vaVars, gvVars, bdVars, opVars, rsVars, evVars>>
exceptLive == <<coreVars, tsVars, lifeVars, ffiVars, vaVars, gvVars, bdVars, opVars, rsVars, evVars>>
exceptVa == <<coreVars, tsVars, lifeVars, ffiVars, liveVars, gvVars, bdVars, opVars, rsVars, evVars>>
exceptGv == <<coreVars, tsVars, lifeVars, ffiVars, liveVars, vaVars, bdVars, opVars, rsVars, evVars>>
exceptBd == <<coreVars, tsVars, lifeVars, ffiVars, liveVars, vaVars, gvVars, opVars, rsVars, evVars>>
exceptOp == <<coreVars, tsVars, lifeVars, ffiVars, liveVars, vaVars, gvVars, bdVars, rsVars, evVars>>
exceptRs == <<coreVars, tsVars, lifeVars, ffiVars, liveVars, vaVars, gvVars, bdVars, opVars, evVars>>
exceptEv == <<coreVars, tsVars, lifeVars, ffiVars, liveVars, vaVars, gvVars, bdVars, opVars, rsVars>>

vars == <<coreVars, extVars>>

(***************************************************************************)
(* Bounds                                                                  *)
(***************************************************************************)
NThreads == 2
MaxUpdates == 2
MaxEpoch == 3
NMem == 2
NSigThreads == 2
MaxRuns == 2
NRsThreads == 2
MaxRsDepth == 2
MaxRsCalls == 4
MaxIdx == 2

Threads == 1..NThreads
NoRec == -1
NoEpoch == -1

Max2(a, b) == IF a >= b THEN a ELSE b

(***************************************************************************)
(* HotFunction (hot_function.rs)                                           *)
(***************************************************************************)

\* crossbeam epoch: the global epoch may advance only when every pinned
\* participant is pinned in the current global epoch.
CanAdvance(le) == \A t \in Threads : le[t] = NoEpoch \/ le[t] = globalEpoch

\* epoch after an attempt to advance made with the pin table le
AdvancedEpoch(le) ==
    IF CanAdvance(le) /\ globalEpoch < MaxEpoch THEN globalEpoch + 1 ELSE globalEpoch

\* a deferred destruction sealed in epoch e is run once the global epoch is two ahead
Expired(g, e) == e - g.epoch >= 2

\* self.current.load(Ordering::Acquire, &guard): the latest record in the
\* modification order of the atomic
LoadedStale == IF current > 0 THEN current - 1 ELSE current
Loaded == current

\* guard.defer_destroy(old): the old record is queued with the current epoch
RetireNow(old) == [g |-> garbage, f |-> freed \cup {old}]
Retire(old) == [g |-> garbage \cup {[rec |-> old, epoch |-> globalEpoch]}, f |-> freed]

\* epoch::pin(): pin in the global epoch; every so often pin() also tries to
\* advance the epoch and runs the expired deferred destructions.
Pin(t, collect) ==
    LET le == [localEpoch EXCEPT ![t] = globalEpoch]
        e  == AdvancedEpoch(le)
        ex == {g \in garbage : Expired(g, e)}
    IN  /\ localEpoch' = le
        /\ IF collect
             THEN /\ globalEpoch' = e
                  /\ garbage' = garbage \ ex
                  /\ freed' = freed \cup {g.rec : g \in ex}
             ELSE UNCHANGED <<globalEpoch, garbage, freed>>

HotInit ==
    /\ current = 0
    /\ created = 0
    /\ lastReturned = 0
    /\ hpc = [t \in Threads |-> "idle"]
    /\ localEpoch = [t \in Threads |-> NoEpoch]
    /\ held = [t \in Threads |-> NoRec]
    /\ floorRec = [t \in Threads |-> 0]
    /\ updOld = [t \in Threads |-> NoRec]
    /\ globalEpoch = 0
    /\ garbage = {}
    /\ freed = {}
    /\ retiredHeld = {}

\* call(): let guard = epoch::pin();
CallPin(t) ==
    /\ hpc[t] = "idle"
    /\ \E collect \in BOOLEAN : Pin(t, collect)
    /\ hpc' = [hpc EXCEPT ![t] = "c_pinned"]
    /\ floorRec' = [floorRec EXCEPT ![t] = lastReturned]
    /\ UNCHANGED <<current, created, lastReturned, held, updOld, retiredHeld>>
    /\ UNCHANGED <<memVars, sigVars, allocVars, machVars, extVars>>

\* call(): let shared = self.current.load(Acquire, &guard); the entry of the
\* loaded record is invoked: (code.func_ptr)(arg)
CallLoad(t) ==
    /\ hpc[t] = "c_pinned"
    /\ held' = [held EXCEPT ![t] = Loaded]
    /\ hpc' = [hpc EXCEPT ![t] = "c_exec"]
    /\ UNCHANGED <<current, created, lastReturned, localEpoch, floorRec, updOld, globalEpoch, garbage, freed, retiredHeld>>
    /\ UNCHANGED <<memVars, sigVars, allocVars, machVars, extVars>>

\* call(): the entry returns and the guard is dropped
CallReturn(t) ==
    /\ hpc[t] = "c_exec"
    /\ hpc' = [hpc EXCEPT ![t] = "idle"]
    /\ held' = [held EXCEPT ![t] = NoRec]
    /\ floorRec' = [floorRec EXCEPT ![t] = 0]
    /\ localEpoch' = [localEpoch EXCEPT ![t] = NoEpoch]
    /\ UNCHANGED <<current, created, lastReturned, updOld,
                   globalEpoch, garbage, freed, retiredHeld>>
    /\ UNCHANGED <<memVars, sigVars, allocVars, machVars, extVars>>

\* update(): let new_code = JittedCode { .. }; let guard = epoch::pin();
UpdPin(t) ==
    /\ hpc[t] = "idle"
    /\ created < MaxUpdates
    /\ created' = created + 1
    /\ \E collect \in BOOLEAN : Pin(t, collect)
    /\ hpc' = [hpc EXCEPT ![t] = "u_pinned"]
    /\ UNCHANGED <<current, lastReturned, held, floorRec, updOld, retiredHeld>>
    /\ UNCHANGED <<memVars, sigVars, allocVars, machVars, extVars>>

\* update(): let old = self.current.swap(Owned::new(new_code), Release, &guard);
UpdSwap(t) ==
    /\ hpc[t] = "u_pinned"
    /\ updOld' = [updOld EXCEPT ![t] = current]
    /\ current' = current + 1
    /\ retiredHeld' = IF \E u \in Threads : held[u] = current
                        THEN retiredHeld \cup {current} ELSE retiredHeld
    /\ hpc' = [hpc EXCEPT ![t] = "u_swapped"]
    /\ UNCHANGED <<created, lastReturned, localEpoch, held, floorRec, globalEpoch,
                   garbage, freed>>
    /\ UNCHANGED <<memVars, sigVars, allocVars, machVars, extVars>>

\* update(): guard.defer_destroy(old);
UpdDefer(t) ==
    /\ hpc[t] = "u_swapped"
    /\ garbage' = Retire(updOld[t]).g
    /\ freed' = Retire(updOld[t]).f
    /\ hpc' = [hpc EXCEPT ![t] = "u_deferred"]
    /\ UNCHANGED <<current, created, lastReturned, localEpoch, held, floorRec, updOld, globalEpoch, retiredHeld>>
    /\ UNCHANGED <<memVars, sigVars, allocVars, machVars, extVars>>

\* update(): the guard is dropped and update returns
UpdReturn(t) ==
    /\ hpc[t] = "u_deferred"
    /\ localEpoch' = [localEpoch EXCEPT ![t] = NoEpoch]
    /\ lastReturned' = Max2(lastReturned, updOld[t] + 1)
    /\ updOld' = [updOld EXCEPT ![t] = NoRec]
    /\ hpc' = [hpc EXCEPT ![t] = "idle"]
    /\ UNCHANGED <<current, created, held, floorRec, globalEpoch,
                   garbage, freed, retiredHeld>>
    /\ UNCHANGED <<memVars, sigVars, allocVars, machVars, extVars>>

HotNext ==
    \E t \in Threads :
        \/ CallPin(t)
        \/ CallLoad(t)
        \/ CallReturn(t)
        \/ UpdPin(t)
        \/ UpdSwap(t)
        \/ UpdDefer(t)
        \/ UpdReturn(t)

(***************************************************************************)
(* DualMappedMemory (jit_memory.rs)                                        *)
(***************************************************************************)
Mems == 1..NMem

\* mmap(.., PROT_READ | PROT_WRITE, MAP_SHARED, fd, 0): the writer view
ProtRW == {"R", "W"}

\* mmap(.., PROT_READ | PROT_EXEC, MAP_SHARED, fd, 0): the executor view
ProtRWX == {"R", "W", "X"}
ProtRX == {"R", "X"}

Mapping(m, view, prot) == [mem |-> m, view |-> view, prot |-> prot]
MappingsOf(m) == {mp \in mappings : mp.mem = m}

\* what new() acquires: the memfd and the two views
Resources == {"fd", "rw", "rx"}

\* libc::close / libc::munmap called on the resources rs of m
Release(m, rs) ==
    [released EXCEPT ![m] = [r \in Resources |-> IF r \in rs THEN @[r] + 1 ELSE @[r]]]

\* new(): what the failure branch of each step releases before returning Err
NoCleanup == [fd |-> {}, sized |-> {}, rw |-> {}]
Cleanup == [fd |-> {"fd"}, sized |-> {"fd"}, rw |-> {"rw", "fd"}]

\* new(): a step failed after the steps up to `at`; release and return Err
FailNew(m, at) ==
    /\ mpc' = [mpc EXCEPT ![m] = "failed"]
    /\ fdOpen' = IF "fd" \in Cleanup[at] THEN fdOpen \ {m} ELSE fdOpen
    /\ mappings' = {mp \in mappings : mp.mem # m \/ mp.view \notin Cleanup[at]}
    /\ released' = Release(m, Cleanup[at])
    /\ UNCHANGED acquired

MemInit ==
    /\ mpc = [m \in Mems |-> "none"]
    /\ mappings = {}
    /\ fdOpen = {}
    /\ written = [m \in Mems |-> FALSE]
    /\ executed = [m \in Mems |-> FALSE]
    /\ acquired = [m \in Mems |-> {}]
    /\ released = [m \in Mems |-> [r \in Resources |-> 0]]

\* new(): libc::memfd_create; a negative fd returns Err
MemfdCreate(m) ==
    /\ mpc[m] = "none"
    /\ \E ok \in BOOLEAN :
         IF ok THEN /\ mpc' = [mpc EXCEPT ![m] = "fd"]
                    /\ fdOpen' = fdOpen \cup {m}
                    /\ acquired' = [acquired EXCEPT ![m] = @ \cup {"fd"}]
               ELSE /\ mpc' = [mpc EXCEPT ![m] = "failed"]
                    /\ UNCHANGED <<fdOpen, acquired>>
    /\ UNCHANGED <<mappings, written, executed, released, hotVars, sigVars, allocVars, machVars, extVars>>

\* new(): libc::ftruncate; on failure close(fd) and return Err
Ftruncate(m) ==
    /\ mpc[m] = "fd"
    /\ \E ok \in BOOLEAN :
         IF ok THEN /\ mpc' = [mpc EXCEPT ![m] = "sized"]
                    /\ UNCHANGED <<fdOpen, mappings, acquired, released>>
               ELSE FailNew(m, "fd")
    /\ UNCHANGED <<written, executed, hotVars, sigVars, allocVars, machVars, extVars>>

\* new(): the RW mmap; on MAP_FAILED close(fd) and return Err
MmapRW(m) ==
    /\ mpc[m] = "sized"
    /\ \E ok \in BOOLEAN :
         IF ok THEN /\ mpc' = [mpc EXCEPT ![m] = "rw"]
                    /\ mappings' = mappings \cup {Mapping(m, "rw", ProtRW)}
                    /\ acquired' = [acquired EXCEPT ![m] = @ \cup {"rw"}]
                    /\ UNCHANGED <<fdOpen, released>>
               ELSE FailNew(m, "sized")
    /\ UNCHANGED <<written, executed, hotVars, sigVars, allocVars, machVars, extVars>>

\* new(): the RX mmap; on MAP_FAILED munmap(rw_ptr), close(fd) and return Err;
\* otherwise Ok(DualMappedMemory { .. })
MmapRX(m) ==
    /\ mpc[m] = "rw"
    /\ \E ok \in BOOLEAN :
         IF ok THEN /\ mpc' = [mpc EXCEPT ![m] = "live"]
                    /\ mappings' = mappings \cup {Mapping(m, "rx", ProtRX)}
                    /\ acquired' = [acquired EXCEPT ![m] = @ \cup {"rx"}]
                    /\ UNCHANGED <<fdOpen, released>>
               ELSE FailNew(m, "rw")
    /\ UNCHANGED <<written, executed, hotVars, sigVars, allocVars, machVars, extVars>>

\* CodeGenerator::emit_to_memory: copy the code through rw_ptr, then flush_icache
Emit(m) ==
    /\ mpc[m] = "live"
    /\ \E mp \in MappingsOf(m) : mp.view = "rw" /\ "W" \in mp.prot
    /\ written' = [written EXCEPT ![m] = TRUE]
    /\ UNCHANGED <<mpc, mappings, fdOpen, executed, acquired, released, hotVars, sigVars, allocVars, machVars, extVars>>

\* the entry transmuted from rx_ptr is called
Execute(m) ==
    /\ mpc[m] = "live"
    /\ written[m]
    /\ \E mp \in MappingsOf(m) : mp.view = "rx" /\ "X" \in mp.prot
    /\ executed' = [executed EXCEPT ![m] = TRUE]
    /\ UNCHANGED <<mpc, mappings, fdOpen, written, acquired, released, hotVars, sigVars, allocVars, machVars, extVars>>

\* Drop for DualMappedMemory: munmap(rw_ptr), munmap(rx_ptr), close(fd)
DropMem(m) ==
    /\ mpc[m] = "live"
    /\ mpc' = [mpc EXCEPT ![m] = "dropped"]
    /\ mappings' = mappings \ MappingsOf(m)
    /\ fdOpen' = fdOpen \ {m}
    /\ released' = Release(m, Resources)
    /\ UNCHANGED <<written, executed, acquired, hotVars, sigVars, allocVars, machVars, extVars>>

MemNext ==
    \E m \in Mems :
        \/ MemfdCreate(m)
        \/ Ftruncate(m)
        \/ MmapRW(m)
        \/ MmapRX(m)
        \/ Emit(m)
        \/ Execute(m)
        \/ DropMem(m)

(***************************************************************************)
(* run_safely and signal_handler (safety.rs)                               *)
(***************************************************************************)
SigThreads == 1..NSigThreads

\* ptr::null_mut()
NullBuf == 0

SigInit ==
    /\ jmpBuf = NullBuf
    /\ spc = [t \in SigThreads |-> "out"]
    /\ runs = [t \in SigThreads |-> 0]
    /\ outcome = [t \in SigThreads |-> "none"]

SigAlive == \A t \in SigThreads : spc[t] \notin {"aborted", "foreign"}

\* run_safely: GLOBAL_JMP_BUF = jb.as_mut_ptr()
Register(t) ==
    /\ SigAlive
    /\ spc[t] = "out"
    /\ runs[t] < MaxRuns
    /\ runs' = [runs EXCEPT ![t] = runs[t] + 1]
    /\ jmpBuf' = t
    /\ spc' = [spc EXCEPT ![t] = "registered"]
    /\ outcome' = [outcome EXCEPT ![t] = "none"]
    /\ UNCHANGED <<hotVars, memVars, allocVars, machVars, extVars>>

\* run_safely: setjmp(jb) returns 0 and f() is entered
Setjmp(t) ==
    /\ SigAlive
    /\ spc[t] = "registered"
    /\ spc' = [spc EXCEPT ![t] = "in_f"]
    /\ UNCHANGED <<jmpBuf, runs, outcome, hotVars, memVars, allocVars, machVars, extVars>>

\* run_safely: f() returned; GLOBAL_JMP_BUF = null; Ok(result)
FinishOk(t) ==
    /\ SigAlive
    /\ spc[t] = "in_f"
    /\ jmpBuf' = NullBuf
    /\ spc' = [spc EXCEPT ![t] = "out"]
    /\ UNCHANGED <<runs, outcome, hotVars, memVars, allocVars, machVars, extVars>>

\* a fatal signal is raised on t inside f(): signal_handler runs on t, reads
\* GLOBAL_JMP_BUF, and either longjmps to the buffer it names or aborts
Fault(t) ==
    /\ SigAlive
    /\ spc[t] = "in_f"
    /\ IF jmpBuf = NullBuf
         THEN /\ spc' = [spc EXCEPT ![t] = "aborted"]
              /\ outcome' = [outcome EXCEPT ![t] = "abort"]
         ELSE IF jmpBuf = t
         THEN /\ spc' = [spc EXCEPT ![t] = "landed"]
              /\ outcome' = [outcome EXCEPT ![t] = "own"]
         ELSE /\ spc' = [spc EXCEPT ![t] = "foreign"]
              /\ outcome' = [outcome EXCEPT ![t] = "foreign"]
    /\ UNCHANGED <<jmpBuf, runs, hotVars, memVars, allocVars, machVars, extVars>>

\* run_safely: setjmp returned non-zero; GLOBAL_JMP_BUF = null; Err(..)
RecoverErr(t) ==
    /\ SigAlive
    /\ spc[t] = "landed"
    /\ jmpBuf' = NullBuf
    /\ spc' = [spc EXCEPT ![t] = "out"]
    /\ UNCHANGED <<runs, outcome, hotVars, memVars, allocVars, machVars, extVars>>

SigNext ==
    \E t \in SigThreads :
        \/ Register(t)
        \/ Setjmp(t)
        \/ FinishOk(t)
        \/ Fault(t)
        \/ RecoverErr(t)

(***************************************************************************)
(* run_safely: nested calls, closures that unwind (safety.rs)              *)
(***************************************************************************)
RsThreads == 1..NRsThreads

RsInit ==
    /\ rsBuf = NullBuf
    /\ rsStack = [t \in RsThreads |-> <<>>]
    /\ rsCalls = 0
    /\ rsJump = "none"

\* the process is running: no abort(), no longjmp into another thread's
\* stack or into a frame that is gone
RsAlive == rsJump \in {"none", "live"}

RsTop(t) == rsStack[t][Len(rsStack[t])]

\* the code of thread t is running outside run_safely or inside a closure
RsInCode(t) == IF Len(rsStack[t]) = 0 THEN TRUE ELSE RsTop(t).pc = "in_f"

\* run_safely is entered, from outside or from a closure:
\* let mut jb = [0u8; 512]; GLOBAL_JMP_BUF = jb.as_mut_ptr()
RsEnter(t) ==
    /\ RsAlive
    /\ RsInCode(t)
    /\ Len(rsStack[t]) < MaxRsDepth
    /\ rsCalls < MaxRsCalls
    /\ rsCalls' = rsCalls + 1
    /\ rsBuf' = rsCalls + 1
    /\ rsStack' = [rsStack EXCEPT ![t] = Append(@, [id |-> rsCalls + 1, pc |-> "registered"])]
    /\ UNCHANGED <<rsJump, exceptRs>>

\* setjmp(jb) returns 0 and f() is entered
RsSetjmp(t) ==
    /\ RsAlive
    /\ Len(rsStack[t]) > 0 /\ RsTop(t).pc = "registered"
    /\ rsStack' = [rsStack EXCEPT ![t][Len(rsStack[t])].pc = "in_f"]
    /\ UNCHANGED <<rsBuf, rsCalls, rsJump, exceptRs>>

\* f() returned, or setjmp returned non-zero:
\* GLOBAL_JMP_BUF = null; Ok(result) or Err(..)
RsReturn(t) ==
    /\ RsAlive
    /\ Len(rsStack[t]) > 0 /\ RsTop(t).pc \in {"in_f", "landed"}
    /\ rsBuf' = NullBuf
    /\ rsStack' = [rsStack EXCEPT ![t] = SubSeq(@, 1, Len(@) - 1)]
    /\ UNCHANGED <<rsCalls, rsJump, exceptRs>>

\* f() panics: the unwinding leaves run_safely at `let result = f();`,
\* before the assignment that clears GLOBAL_JMP_BUF
RsUnwind(t) ==
    /\ RsAlive
    /\ Len(rsStack[t]) > 0 /\ RsTop(t).pc = "in_f"
    /\ rsStack' = [rsStack EXCEPT ![t] = SubSeq(@, 1, Len(@) - 1)]
    /\ UNCHANGED <<rsBuf, rsCalls, rsJump, exceptRs>>

\* SIGSEGV or SIGILL is raised in the code of thread t: signal_handler
\* aborts if GLOBAL_JMP_BUF is null and longjmps to it otherwise
RsSignal(t) ==
    /\ RsAlive
    /\ RsInCode(t)
    /\ IF rsBuf = NullBuf
         THEN rsJump' = "abort" /\ UNCHANGED rsStack
         ELSE IF \E k \in DOMAIN rsStack[t] : rsStack[t][k].id = rsBuf
         THEN /\ rsJump' = "live"
              /\ \E k \in DOMAIN rsStack[t] :
                    /\ rsStack[t][k].id = rsBuf
                    /\ rsStack' = [rsStack EXCEPT ![t] =
                                     Append(SubSeq(@, 1, k - 1), [id |-> rsBuf, pc |-> "landed"])]
         ELSE /\ rsJump' = IF \E u \in RsThreads : \E k \in DOMAIN rsStack[u] :
                                 rsStack[u][k].id = rsBuf
                           THEN "foreign" ELSE "dead"
              /\ UNCHANGED rsStack
    /\ UNCHANGED <<rsBuf, rsCalls, exceptRs>>

RsNext ==
    \E t \in RsThreads :
        \/ RsEnter(t)
        \/ RsSetjmp(t)
        \/ RsReturn(t)
        \/ RsUnwind(t)
        \/ RsSignal(t)

(***************************************************************************)
(* EVEX encoding of the 512-bit loads and stores (assembler/avx512.rs)     *)
(***************************************************************************)
\* the registers and displacements the encoders are called with: zmm0 and
\* zmm9; rax, rbp and r12 as base; rcx and r9 as index; displacements on
\* both sides of every boundary of the scaled and the plain 8-bit range
EvZmm == {0, 9}
EvBases == {0, 5, 12}
EvIndexes == {1, 9}
EvDisps == {0, 1, -1, 63, 64, -64, 100, 127, 128, -128, -129, 8128, 8192, -8192, -8256, 65536}

\* Option<u8>::None for EvexPrefix.index
NoIndex == -1

\* EvexPrefix::new() followed by with_dest, with_mem_base, with_index,
\* with_disp, with_map
EvexPrefix(reg, base, index, scale, disp) ==
    [map |-> 1, w |-> TRUE, vvvv |-> 0, pp |-> 1, reg |-> reg % 16, rm |-> base % 16,
     is_mem |-> TRUE, disp |-> disp, index |-> index % 16, scale |-> scale]

\* encode_prefix: 0x62, R'RXB'00mm, Wvvvv1pp, zaaa0bVV'
encode_prefix(p) ==
    LET r_bit == IF (p.reg \div 8) % 2 # 0 THEN 0 ELSE 128
        x_bit == IF p.index # NoIndex /\ (p.index \div 8) % 2 # 0 THEN 0 ELSE 64
        b_bit == IF (p.rm \div 8) % 2 # 0 THEN 0 ELSE 32
        w_bit == IF p.w THEN 128 ELSE 0
        vvvv_inv == (15 - p.vvvv) * 8
    IN  <<98, r_bit + 16 + x_bit + b_bit + p.map, w_bit + vvvv_inv + 4 + p.pp, 8>>

\* encode_modrm
encode_modrm(p) ==
    LET reg_field == (p.reg % 8) * 8
        rm_field == p.rm % 8
    IN  IF p.is_mem
        THEN IF p.index # NoIndex THEN 4 + reg_field
             ELSE IF p.disp = 0 THEN reg_field + rm_field
             ELSE IF p.disp >= -128 /\ p.disp <= 127 THEN 64 + reg_field + rm_field
             ELSE 128 + reg_field + rm_field
        ELSE 192 + reg_field + rm_field

\* encode_sib: Some(scale_bits | index << 3 | base), or no byte
encode_sib(p) ==
    IF ~p.is_mem \/ p.index = NoIndex THEN <<>>
    ELSE LET scale_bits == CASE p.scale = 2 -> 64 [] p.scale = 4 -> 128
                             [] p.scale = 8 -> 192 [] OTHER -> 0
         IN  <<scale_bits + (p.index % 8) * 8 + (p.rm % 8)>>

\* the part the two encoders share: prefix with pp = F3, opcode, ModR/M,
\* SIB, and the displacement when it is not zero: (disp / 64) as u8, where
\* the division of i32 rounds towards zero, or (disp as i32).to_le_bytes()
Vmovdqu64(opcode, zmm, base, index, disp) ==
    LET prefix == EvexPrefix(zmm, base, index, 8, disp)
        evex == [encode_prefix(prefix) EXCEPT ![3] = (@ - (@ % 4)) + 2]
        disp8 == (IF disp >= 0 THEN disp \div 64 ELSE -((-disp) \div 64)) % 256
        le_bytes == <<disp % 256, (disp \div 256) % 256,
                      (disp \div 65536) % 256, (disp \div 16777216) % 256>>
    IN  evex \o <<opcode, encode_modrm(prefix)>> \o encode_sib(prefix)
        \o (IF disp = 0 THEN <<>>
            ELSE IF disp >= -128 * 64 /\ disp <= 127 * 64 /\ disp % 64 = 0
            THEN <<disp8>>
            ELSE le_bytes)

\* vmovdqu64_load(dest_zmm, base, index, disp): opcode 6F
vmovdqu64_load(dest_zmm, base, index, disp) == Vmovdqu64(111, dest_zmm, base, index, disp)

\* vmovdqu64_store(base, index, src_zmm, disp): opcode 7F
vmovdqu64_store(base, index, src_zmm, disp) == Vmovdqu64(127, src_zmm, base, index, disp)

EvIdle ==
    /\ evIn = [op |-> "load", zmm |-> 0, base |-> 0, index |-> 1, disp |-> 0]
    /\ evBuf = <<>>

\* Avx512Encoder::new() and the arguments of the call to come
EvInit ==
    /\ evIn \in [op : {"load", "store"}, zmm : EvZmm, base : EvBases,
                  index : EvIndexes, disp : EvDisps]
    /\ evBuf = <<>>

\* the call of the encoder on the empty buffer
EvEncode ==
    /\ evBuf = <<>>
    /\ evBuf' = IF evIn.op = "load"
                THEN vmovdqu64_load(evIn.zmm, evIn.base, evIn.index, evIn.disp)
                ELSE vmovdqu64_store(evIn.base, evIn.index, evIn.zmm, evIn.disp)
    /\ UNCHANGED <<evIn, exceptEv>>

EvNext == EvEncode

(***************************************************************************)
(* IR operands and locations (ir.rs, compiler.rs)                          *)
(***************************************************************************)
\* Operand::Reg(n), Operand::Ymm(n), Operand::Imm(n), Operand::Label(s), None
R(n) == [t |-> "reg", n |-> n, s |-> ""]
Y(n) == [t |-> "ymm", n |-> n, s |-> ""]
I(n) == [t |-> "imm", n |-> n, s |-> ""]
L(s) == [t |-> "lab", n |-> 0, s |-> s]
NoOp == [t |-> "none", n |-> 0, s |-> ""]

\* Location::Register(r), Location::Spill(offset)
LocRegister(r) == [k |-> "reg", v |-> r]
LocSpill(off) == [k |-> "spill", v |-> off]

Range(f) == {f[x] : x \in DOMAIN f}
SetMin(S) == CHOOSE x \in S : \A y \in S : x <= y
SetMax(S) == -SetMin({-x : x \in S})
\* the element of a set of one element: The({e(x) : x \in {v}}) is e(v), with v
\* computed once
The(S) == CHOOSE x \in S : TRUE

\* let gpr_pool = vec![1, 2, 3, 4, 7, 8, 11, 12, 13]; callee_saved_size = 40
GprPool == <<1, 2, 3, 4, 7, 8, 11, 12, 13>>
CalleeSavedSize == 40

(***************************************************************************)
(* allocate_registers (compiler.rs)                                        *)
(***************************************************************************)

\* the pre-colouring: Reg(0) in the return register, Reg(1..4) in registers 1..4
IsPreColored(op) == op.t = "reg" /\ op.n \in 0..4

\* pre_colored: the pre-coloured intervals, keyed by their physical register
PreColored(intervals) == {iv \in Range(intervals) : IsPreColored(iv.operand)}

\* active.retain(|iv| iv.end > current_start)
ExpireEarly(active, start) == SelectSeq(active, LAMBDA a : a.end > start + 1)
Expire(active, start) == SelectSeq(active, LAMBDA a : a.end > start)

\* the candidates of the pool: not held by an active interval and not
\* overlapping a pre-coloured interval of the same register
FreeRegs(active, iv, pool, pre) ==
    {r \in Range(pool) :
        /\ \A i \in DOMAIN active : ~(active[i].loc.k = "reg" /\ active[i].loc.v = r)
        /\ ~\E f \in pre : f.operand.n = r /\ iv.start < f.end /\ f.start < iv.end}

\* active.iter().enumerate().max_by_key(|(_, iv)| iv.end): the last of the maxima
SpillCandidate(active) ==
    SetMax({i \in DOMAIN active : \A j \in DOMAIN active : active[j].end <= active[i].end})

RemoveAt(seq, i) == SubSeq(seq, 1, i - 1) \o SubSeq(seq, i + 1, Len(seq))

\* the elements of seq at the indices in S, in their order
RECURSIVE KeepIn(_, _, _, _)
KeepIn(seq, S, lo, hi) ==
    IF lo > hi THEN <<>>
    ELSE IF lo = hi THEN (IF lo \in S THEN <<seq[lo]>> ELSE <<>>)
    ELSE LET mid == (lo + hi) \div 2
         IN  KeepIn(seq, S, lo, mid) \o KeepIn(seq, S, mid + 1, hi)

Keep(seq, S) == KeepIn(seq, S, 1, Len(seq))

\* the concatenation of the n sequences part(1), ..., part(n)
RECURSIVE Concat(_, _, _)
Concat(part(_), lo, hi) ==
    IF lo > hi THEN <<>>
    ELSE IF lo = hi THEN part(lo)
    ELSE LET mid == (lo + hi) \div 2
         IN  Concat(part, lo, mid) \o Concat(part, mid + 1, hi)

WithLoc(iv, loc) == [operand |-> iv.operand, start |-> iv.start, end |-> iv.end, loc |-> loc]

\* which branch of the loop body the interval iv takes in state st
AllocCase(st, iv, pool, pre) ==
    LET active == Expire(st.active, iv.start)
    IN  IF iv.operand \in DOMAIN st.map THEN "fixed"
        ELSE IF FreeRegs(active, iv, pool, pre) # {} THEN "free"
        ELSE IF active # <<>> /\ active[SpillCandidate(active)].end > iv.end THEN "evict"
        ELSE "spill"

\* one iteration of `for i in 0..intervals.len()`
AllocIter(st, iv, pool, pre, off) ==
    LET active == Expire(st.active, iv.start)
        c      == AllocCase(st, iv, pool, pre)
        slot   == LocSpill(-(off + (st.slots + 1) * 8))
    IN  CASE c = "fixed" ->
               [st EXCEPT !.active = Append(active, WithLoc(iv, st.map[iv.operand]))]
          [] c = "free" ->
               LET loc == LocRegister(SetMin(FreeRegs(active, iv, pool, pre)))
               IN  [active |-> Append(active, WithLoc(iv, loc)),
                    map |-> (iv.operand :> loc) @@ st.map,
                    slots |-> st.slots]
          [] c = "evict" ->
               LET idx == SpillCandidate(active)
                   reg == active[idx].loc
               IN  [active |-> Append(RemoveAt(active, idx), WithLoc(iv, reg)),
                    map |-> (iv.operand :> reg) @@ (active[idx].operand :> slot) @@ st.map,
                    slots |-> st.slots + 1]
          [] OTHER ->
               [active |-> active,
                map |-> (iv.operand :> slot) @@ st.map,
                slots |-> st.slots + 1]

\* the state before the loop: the map holds the pre-coloured operands
AllocStart(intervals) ==
    [active |-> <<>>,
     map |-> [op \in {iv.operand : iv \in PreColored(intervals)} |-> LocRegister(op.n)],
     slots |-> 0]

RECURSIVE AllocFrom(_, _, _, _, _, _)
AllocFrom(st, intervals, i, pool, pre, off) ==
    IF i > Len(intervals) THEN st
    ELSE AllocFrom(AllocIter(st, intervals[i], pool, pre, off), intervals, i + 1, pool, pre, off)

\* allocate_registers(intervals, pool, offset_start): Ok((map, stack_slot_count))
AllocateRegisters(intervals, pool, off) ==
    AllocFrom(AllocStart(intervals), intervals, 1, pool, PreColored(intervals), off)

\* The allocator is checked on every interval list over these operands (an
\* argument slot and three user registers) with indices up to MaxIdx, with the
\* two-register window <<4, 7>> of gpr_pool, so that the pool is exhausted
\* within the bound.
AllocOperands == {R(4), R(10), R(11), R(12)}
AllocPool == SubSeq(GprPool, 4, 5)

IntervalsOver(ops) ==
    {[operand |-> op, start |-> a, end |-> b] : op \in ops, a \in 0..MaxIdx, b \in 0..MaxIdx}

\* the lists liveness_analysis can hand over: one interval per operand,
\* sorted by start, intervals of equal start in any order
RECURSIVE SortedLists(_, _)
SortedLists(ops, from) ==
    {<<>>} \cup
    UNION {{<<iv>> \o rest : rest \in SortedLists(ops \ {iv.operand}, iv.start)} :
             iv \in {x \in IntervalsOver(ops) : x.start >= from /\ x.start <= x.end}}

AllocInit ==
    /\ aIntervals \in SortedLists(AllocOperands, 0)
    /\ aIdx = 1
    /\ aState = AllocStart(aIntervals)
    /\ aPhase = "loop"

\* one pass of the loop body on intervals[i]
AllocStep ==
    /\ aPhase = "loop"
    /\ aIdx <= Len(aIntervals)
    /\ LET c == AllocCase(aState, aIntervals[aIdx], AllocPool, PreColored(aIntervals))
       IN  \/ c = "fixed"
           \/ c = "free"
           \/ c = "evict"
           \/ c = "spill"
    /\ aState' = AllocIter(aState, aIntervals[aIdx], AllocPool, PreColored(aIntervals),
                           CalleeSavedSize)
    /\ aIdx' = aIdx + 1
    /\ UNCHANGED <<aIntervals, aPhase, hotVars, memVars, sigVars, machVars, extVars>>

\* Ok((map, stack_slot_count))
AllocReturn ==
    /\ aPhase = "loop"
    /\ aIdx > Len(aIntervals)
    /\ aPhase' = "done"
    /\ UNCHANGED <<aIntervals, aIdx, aState, hotVars, memVars, sigVars, machVars, extVars>>

AllocNext == AllocStep \/ AllocReturn

(***************************************************************************)
(* IR instructions (ir.rs) and liveness_analysis (compiler.rs)             *)
(***************************************************************************)
\* Instruction { op, dest, src1, src2 }; k is the index of LoadArg(k), SetArg(k)
Ins(op, dest, src1, src2) == [op |-> op, k |-> 0, dest |-> dest, src1 |-> src1, src2 |-> src2]
InsK(op, k, dest, src1) == [op |-> op, k |-> k, dest |-> dest, src1 |-> src1, src2 |-> NoOp]

JumpOps == {"Jmp", "Jnz", "Je", "Jne", "Jl", "Jle", "Jg", "Jge"}

\* labels: the index of the (last) Label instruction of each name
LabelIndex(instrs, name) ==
    LET at == {i \in DOMAIN instrs : instrs[i].op = "Label" /\ instrs[i].dest = L(name)}
    IN  IF at = {} THEN 0 ELSE SetMax(at)

\* back_edges: (target_idx, idx) of every jump to a label bound earlier
IsBackEdge(instrs, i) ==
    /\ instrs[i].op \in JumpOps
    /\ instrs[i].dest.t = "lab"
    /\ LabelIndex(instrs, instrs[i].dest.s) # 0
    /\ LabelIndex(instrs, instrs[i].dest.s) < i

BackEdges(instrs) ==
    LET idxs == {i \in DOMAIN instrs : IsBackEdge(instrs, i)}
        RECURSIVE Seqd(_)
        Seqd(S) == IF S = {} THEN <<>>
                   ELSE LET i == SetMin(S)
                        IN  <<[head |-> LabelIndex(instrs, instrs[i].dest.s), tail |-> i]>>
                            \o Seqd(S \ {i})
    IN  Seqd(idxs)

\* the operands an instruction makes live at its index
OperandsAt(ins) ==
    {op \in {ins.dest, ins.src1, ins.src2} : op.t \in {"reg", "ymm"}}
    \cup (IF ins.op = "Call" THEN {R(r) : r \in 0..4} ELSE {})

\* the correction for loops, with every back edge judged against the
\* interval as it was before any extension
ExtendEndStale(start, end, edges) ==
    LET hit == {i \in DOMAIN edges :
                  start <= edges[i].head /\ end >= edges[i].head /\ end < edges[i].tail}
    IN  IF hit = {} THEN end ELSE SetMax({edges[i].tail : i \in hit})

\* the correction for loops: an interval live at a loop head lives to its tail
RECURSIVE ExtendEnd(_, _, _)
ExtendEnd(start, end, edges) ==
    IF edges = <<>> THEN end
    ELSE LET e == Head(edges)
             end1 == IF start <= e.head /\ end >= e.head /\ end < e.tail THEN e.tail ELSE end
         IN  ExtendEnd(start, end1, Tail(edges))

NoLoc == [k |-> "none", v |-> 0]

IntervalOf(instrs, op, edges) ==
    LET uses == {i \in DOMAIN instrs : op \in OperandsAt(instrs[i])}
    IN  [operand |-> op,
         start |-> SetMin(uses),
         end |-> ExtendEnd(SetMin(uses), SetMax(uses), edges),
         assigned_loc |-> NoLoc]

LiveIntervals(instrs) ==
    LET ops == UNION {OperandsAt(instrs[i]) : i \in DOMAIN instrs}
        edges == BackEdges(instrs)
    IN  {IntervalOf(instrs, op, edges) : op \in ops}

\* intervals.sort_by_key(|i| i.start): the sort is stable over the iteration
\* order of a HashSet; intervals of equal start are taken here in the order
\* of their operand numbers, one of the orders the set can yield
IntervalKey(iv) == iv.start * 1000 + (IF iv.operand.t = "ymm" THEN 500 ELSE 0) + iv.operand.n

RECURSIVE SortIntervals(_)
SortIntervals(S) ==
    IF S = {} THEN <<>>
    ELSE LET m == CHOOSE x \in S : \A y \in S : IntervalKey(x) <= IntervalKey(y)
         IN  <<m>> \o SortIntervals(S \ {m})

liveness_analysis(instrs) == SortIntervals(LiveIntervals(instrs))

(***************************************************************************)
(* The optimizer (optimizer.rs)                                            *)
(***************************************************************************)
IsIdentityMove(ins) ==
    ins.op = "Mov" /\ ins.dest.t = "reg" /\ ins.src1.t = "reg" /\ ins.dest.n = ins.src1.n

remove_identity_moves(instrs) == SelectSeq(instrs, LAMBDA ins : ~IsIdentityMove(ins))

\* Mov R, Imm(A) ; Add R, Imm(B) -> Mov R, Imm(A+B); the scan stays on the
\* merged instruction (the immediates of the programs below are small: the
\* i32 sum does not overflow)
CanFold(left, right) ==
    /\ left.op = "Mov" /\ left.dest.t = "reg" /\ left.src1.t = "imm"
    /\ right.op = "Add" /\ right.dest.t = "reg" /\ right.src1.t = "imm"
    /\ left.dest.n = right.dest.n

RECURSIVE FoldFrom(_, _)
FoldFrom(instrs, from) ==
    LET at == {i \in from..(Len(instrs) - 1) : CanFold(instrs[i], instrs[i + 1])}
    IN  IF at = {} THEN instrs
        ELSE LET i == SetMin(at)
             IN  FoldFrom([RemoveAt(instrs, i + 1) EXCEPT
                              ![i].src1 = I(instrs[i].src1.n + instrs[i + 1].src1.n)], i)

constant_folding(instrs) == FoldFrom(instrs, 1)

\* everything between a Ret or Jmp and the next Label is removed
InDeadZone(instrs, i) ==
    LET labels == {k \in 1..i : instrs[k].op = "Label"}
        last == IF labels = {} THEN 0 ELSE SetMax(labels)
    IN  \E j \in (last + 1)..(i - 1) : instrs[j].op \in {"Ret", "Jmp"}

dead_code_elimination(instrs) == Keep(instrs, {i \in DOMAIN instrs : ~InDeadZone(instrs, i)})

\* body_len < 50
UnrollLimit == 50

\* the jumps loop_unrolling accepts: unconditional, backwards, over a body of
\* 1..49 instructions without a label
CanUnroll(instrs, i) ==
    /\ instrs[i].op = "Jmp"
    /\ IsBackEdge(instrs, i)
    /\ LET start == LabelIndex(instrs, instrs[i].dest.s)
       IN  /\ i - (start + 1) > 0
           /\ i - (start + 1) < UnrollLimit
           /\ \A j \in (start + 1)..(i - 1) : instrs[j].op # "Label"

\* the body of the first such loop is inserted once more before its jump
loop_unrolling(instrs) ==
    LET cands == {i \in DOMAIN instrs : CanUnroll(instrs, i)}
    IN  IF cands = {} THEN instrs
        ELSE LET i == SetMin(cands)
                 start == LabelIndex(instrs, instrs[i].dest.s)
             IN  SubSeq(instrs, 1, i - 1) \o SubSeq(instrs, start + 1, i - 1)
                 \o SubSeq(instrs, i, Len(instrs))

\* name.contains("loop"), on the label names of the programs below
ContainsLoop(name) == name \in {"loop", "loop_vec", "loop_cleanup"}

\* step 1 of vectorize_loop: the scan for `Label ..loop..` and the first Jmp
\* to the label seen last; [s, e] with e = 0 if there is none
LoopStartAt(instrs, idx) ==
    LET seen == {i \in 1..idx : /\ instrs[i].op = "Label" /\ instrs[i].dest.t = "lab"
                                /\ ContainsLoop(instrs[i].dest.s)}
    IN  IF seen = {} THEN 0 ELSE SetMax(seen)

FindLoop(instrs) ==
    LET ends == {i \in DOMAIN instrs :
                    /\ instrs[i].op = "Jmp" /\ instrs[i].dest.t = "lab"
                    /\ LoopStartAt(instrs, i) # 0
                    /\ instrs[i].dest = instrs[LoopStartAt(instrs, i)].dest}
    IN  IF ends = {} THEN [s |-> LoopStartAt(instrs, Len(instrs)), e |-> 0]
        ELSE [s |-> LoopStartAt(instrs, SetMin(ends)), e |-> SetMin(ends)]

IsInc(ins) == ins.op = "Add" /\ (ins.src1 = I(1) \/ ins.src2 = I(1))

\* steps 2 and 3: the instructions the pattern matcher picks in start..end
\* (0 where it finds none)
VecPattern(instrs, s, e) ==
    LET body == s..(e - 1)
        loads == {i \in body : instrs[i].op = "Load"}
        pick(S) == IF S = {} THEN 0 ELSE SetMax(S)
        la == IF loads = {} THEN 0 ELSE SetMin(loads)
        cmps == {i \in body : /\ instrs[i].op = "Cmp"
                              /\ la # 0 /\ instrs[la].src2.t = "reg"
                              /\ instrs[i].src1 = instrs[la].src2}
    IN  [la |-> la,
         lb |-> IF loads \ {la} = {} THEN 0 ELSE SetMin(loads \ {la}),
         add |-> pick({i \in body : instrs[i].op = "Add" /\ ~IsInc(instrs[i])}),
         st |-> pick({i \in body : instrs[i].op = "Store"}),
         inc |-> pick({i \in body : IsInc(instrs[i])}),
         cmp |-> pick(cmps)]

\* step 4: the instruction the vector loop gets for instruction i of the body
VecInstr(ins, i, p) ==
    CASE i = p.la -> [ins EXCEPT !.op = "VLoad", !.dest = Y(100)]
      [] i = p.lb -> [ins EXCEPT !.op = "VLoad", !.dest = Y(101)]
      [] i = p.add -> [ins EXCEPT !.op = "VAdd", !.dest = Y(102), !.src1 = Y(100), !.src2 = Y(101)]
      [] i = p.st -> [ins EXCEPT !.op = "VStore", !.src2 = Y(102)]
      [] i = p.inc -> [ins EXCEPT !.src1 = I(4)]
      [] OTHER -> ins

VecBody(instrs, s, e, p) ==
    LET one(i) == LET inst == VecInstr(instrs[i], i, p)
                  IN  IF i = p.cmp \/ inst.op \in {"Je", "Jne", "Jg", "Jge", "Jl", "Jle"}
                      THEN <<>> ELSE <<inst>>
    IN  Concat(one, s, e - 1)

vectorize_loop(instrs) ==
    LET lp == FindLoop(instrs)
        p == VecPattern(instrs, lp.s, lp.e)
    IN  IF lp.s = 0 \/ lp.e = 0 THEN instrs
        ELSE IF p.la = 0 \/ p.lb = 0 \/ p.add = 0 \/ p.st = 0 \/ p.inc = 0 THEN instrs
        ELSE IF p.cmp = 0 \/ instrs[p.cmp].src2.t = "none" THEN instrs
        ELSE LET name == instrs[lp.s].dest.s
                 idx == instrs[p.la].src2
                 limit == instrs[p.cmp].src2
             IN  SubSeq(instrs, 1, lp.s - 1)
                 \o <<Ins("Label", L(name \o "_vec"), NoOp, NoOp),
                      Ins("Mov", R(200), idx, NoOp),
                      Ins("Add", R(200), I(4), NoOp),
                      Ins("Cmp", NoOp, R(200), limit),
                      Ins("Jg", L(name \o "_cleanup"), NoOp, NoOp)>>
                 \o VecBody(instrs, lp.s + 1, lp.e, p)
                 \o <<Ins("Jmp", L(name \o "_vec"), NoOp, NoOp),
                      Ins("Label", L(name \o "_cleanup"), NoOp, NoOp)>>
                 \o SubSeq(instrs, lp.s, Len(instrs))

\* one round of the loop of optimize_function
OptimizeRound(instrs, lvl) ==
    The({The({The({The({IF lvl >= 2 THEN loop_unrolling(d) ELSE d
                        : d \in {IF lvl >= 3 THEN vectorize_loop(c) ELSE c}})
                   : c \in {dead_code_elimination(b)}})
              : b \in {constant_folding(a)}})
         : a \in {remove_identity_moves(instrs)}})

\* while changed { ... }
RECURSIVE optimize_function(_, _)
optimize_function(instrs, lvl) ==
    The({IF next = instrs THEN instrs ELSE optimize_function(next, lvl)
         : next \in {OptimizeRound(instrs, lvl)}})

(***************************************************************************)
(* compile_program (compiler.rs): the calls on the JitBuilder              *)
(***************************************************************************)
\* One call on the builder: the emitter o of x64.rs with its arguments.  The
\* entry "ir" emits nothing: it stands at the first byte of IR instruction b
\* of function a, binds the label l if there is one, and carries the
\* registers the instruction reads (rd) and writes (wr).
Asm(o, a, b, l) == [o |-> o, a |-> a, b |-> b, c |-> 0, l |-> l, rd |-> {}, wr |-> -1]
Asm3(o, a, b, c) == [o |-> o, a |-> a, b |-> b, c |-> c, l |-> "", rd |-> {}, wr |-> -1]
IrAt(f, i, l, rd, wr) == [o |-> "ir", a |-> f, b |-> i, c |-> 0, l |-> l, rd |-> rd, wr |-> wr]

\* scratch1 = 9 (R13), scratch2 = 10 (R14)
Scratch1 == 9
Scratch2 == 10

\* builder.mov_reg_imm(5, 1_000_000): the fuel of one invocation, scaled down
Fuel == 8

\* the registers of LoadArg(k) and SetArg(k)
ArgPhys(k) == CASE k = 0 -> 11 [] k = 1 -> 12 [] k = 2 -> 13 [] k = 3 -> 6

\* fn is_caller_saved(reg)
is_caller_saved(r) == r \in {0, 1, 2, 3, 4, 6, 11, 12, 13}

\* get_loc: the location of a register operand, Register(0) for anything else
get_loc(map, op) == IF op \in DOMAIN map THEN map[op] ELSE LocRegister(0)

\* load_op: the register that holds the operand, after a load from its slot
LoadReg(loc, scratch) == IF loc.k = "reg" THEN loc.v ELSE scratch
load_op(loc, scratch) ==
    IF loc.k = "reg" THEN <<>> ELSE <<Asm("mov_reg_stack", scratch, loc.v, "")>>

store_op(loc, src) ==
    IF loc.k = "reg"
    THEN IF loc.v # src THEN <<Asm("mov_reg_reg", loc.v, src, "")>> ELSE <<>>
    ELSE <<Asm("mov_stack_reg", loc.v, src, "")>>

\* the registers a Call pushes: those of the intervals across the call whose
\* assigned_loc is a caller-saved register
ToSave(intervals, idx) ==
    {iv.assigned_loc.v : iv \in {x \in Range(intervals) :
        /\ x.start < idx /\ x.end > idx
        /\ x.assigned_loc.k = "reg"
        /\ is_caller_saved(x.assigned_loc.v)}}

RECURSIVE PushAll(_)
PushAll(S) == IF S = {} THEN <<>>
              ELSE <<Asm("push_reg", SetMin(S), 0, "")>> \o PushAll(S \ {SetMin(S)})

RECURSIVE PopAll(_)
PopAll(S) == IF S = {} THEN <<>>
             ELSE <<Asm("pop_reg", SetMax(S), 0, "")>> \o PopAll(S \ {SetMax(S)})

\* builder.prologue(0) and builder.epilogue()
Prologue ==
    <<Asm("push_rbp", 0, 0, ""), Asm("mov_rbp_rsp", 0, 0, ""),
      Asm("push_reg", 5, 0, ""), Asm("push_reg", 7, 0, ""), Asm("push_reg", 8, 0, ""),
      Asm("push_reg", 9, 0, ""), Asm("push_reg", 10, 0, ""), Asm("add_rsp", -8, 0, "")>>
Epilogue ==
    <<Asm("lea_rsp_rbp", -40, 0, ""),
      Asm("pop_reg", 10, 0, ""), Asm("pop_reg", 9, 0, ""), Asm("pop_reg", 8, 0, ""),
      Asm("pop_reg", 7, 0, ""), Asm("pop_reg", 5, 0, ""), Asm("pop_rbp", 0, 0, ""),
      Asm("ret", 0, 0, "")>>

\* the frame of the compiled function: the registers pushed after the
\* prologue, and their restoration before the epilogue
FrameEnter(stack_size) ==
    <<Asm("push_reg", 7, 0, ""), Asm("push_reg", 8, 0, ""), Asm("push_reg", 9, 0, ""),
      Asm("push_reg", 10, 0, ""), Asm("push_reg", 5, 0, "")>>
    \o (IF stack_size > 0 THEN <<Asm("add_rsp", -stack_size, 0, "")>> ELSE <<>>)
FrameLeave(stack_size) ==
    (IF stack_size > 0 THEN <<Asm("add_rsp", stack_size, 0, "")>> ELSE <<>>)
    \o <<Asm("pop_reg", 5, 0, ""), Asm("pop_reg", 10, 0, ""), Asm("pop_reg", 9, 0, ""),
         Asm("pop_reg", 8, 0, ""), Asm("pop_reg", 7, 0, "")>>
    \o Epilogue

\* Add and Sub: op_rr and op_ri name the two emitters
LowerArith(ins, map, op_rr, op_ri) ==
    LET dest_loc == get_loc(map, ins.dest)
        d_reg == LoadReg(dest_loc, Scratch1)
    IN  load_op(dest_loc, Scratch1)
        \o (IF ins.src1.t = "reg"
            THEN load_op(map[ins.src1], Scratch2)
                 \o <<Asm(op_rr, d_reg, LoadReg(map[ins.src1], Scratch2), "")>>
            ELSE IF ins.src1.t = "imm" THEN <<Asm(op_ri, d_reg, ins.src1.n, "")>>
            ELSE <<>>)
        \o (IF dest_loc.k = "spill" THEN <<Asm("mov_stack_reg", dest_loc.v, d_reg, "")>> ELSE <<>>)

LowerMov(ins, map) ==
    LET dest_loc == get_loc(map, ins.dest)
    IN  IF ins.src1.t = "reg"
        THEN LET src_loc == map[ins.src1]
             IN  CASE dest_loc.k = "reg" /\ src_loc.k = "reg" ->
                        <<Asm("mov_reg_reg", dest_loc.v, src_loc.v, "")>>
                   [] dest_loc.k = "reg" /\ src_loc.k = "spill" ->
                        <<Asm("mov_reg_stack", dest_loc.v, src_loc.v, "")>>
                   [] dest_loc.k = "spill" /\ src_loc.k = "reg" ->
                        <<Asm("mov_stack_reg", dest_loc.v, src_loc.v, "")>>
                   [] OTHER ->
                        <<Asm("mov_reg_stack", Scratch1, src_loc.v, ""),
                          Asm("mov_stack_reg", dest_loc.v, Scratch1, "")>>
        ELSE IF ins.src1.t = "imm"
        THEN IF dest_loc.k = "reg"
             THEN <<Asm("mov_reg_imm", dest_loc.v, ins.src1.n, "")>>
             ELSE <<Asm("mov_reg_imm", Scratch1, ins.src1.n, ""),
                    Asm("mov_stack_reg", dest_loc.v, Scratch1, "")>>
        ELSE <<>>

LowerCmp(ins, map) ==
    LET r1_loc == get_loc(map, ins.src1)
        r1 == LoadReg(r1_loc, Scratch1)
    IN  load_op(r1_loc, Scratch1)
        \o (IF ins.src2.t = "reg"
            THEN load_op(map[ins.src2], Scratch2)
                 \o <<Asm("cmp_reg_reg", r1, LoadReg(map[ins.src2], Scratch2), "")>>
            ELSE IF ins.src2.t = "imm" THEN <<Asm("cmp_reg_imm", r1, ins.src2.n, "")>>
            ELSE <<>>)

LowerLoad(ins, map) ==
    LET dest_loc == get_loc(map, ins.dest)
        base_loc == get_loc(map, ins.src1)
        base_reg == LoadReg(base_loc, Scratch1)
        spill(d_reg) == IF dest_loc.k = "spill"
                        THEN <<Asm("mov_stack_reg", dest_loc.v, d_reg, "")>> ELSE <<>>
    IN  load_op(base_loc, Scratch1)
        \o (IF ins.src2.t = "imm"
            THEN LET d_reg == LoadReg(dest_loc, Scratch2)
                 IN  <<Asm("mov_reg_imm", d_reg, ins.src2.n, ""),
                       Asm3("mov_reg_index", d_reg, base_reg, d_reg)>>
                     \o spill(d_reg)
            ELSE IF ins.src2.t = "reg"
            THEN LET idx_reg == LoadReg(map[ins.src2], Scratch2)
                     d_reg == LoadReg(dest_loc, Scratch1)
                 IN  load_op(map[ins.src2], Scratch2)
                     \o <<Asm3("mov_reg_index", d_reg, base_reg, idx_reg)>>
                     \o spill(d_reg)
            ELSE <<>>)

LowerStore(ins, map) ==
    LET base_loc == get_loc(map, ins.dest)
        base_reg == LoadReg(base_loc, Scratch1)
        val_reg == IF ins.src2.t = "imm" THEN 0 ELSE LoadReg(get_loc(map, ins.src2), Scratch2)
        i_loc == get_loc(map, ins.src1)
        idx_reg == IF ins.src1.t = "imm" THEN 6 ELSE LoadReg(i_loc, 6)
    IN  load_op(base_loc, Scratch1)
        \o (IF ins.src2.t = "imm" THEN <<Asm("mov_reg_imm", 0, ins.src2.n, "")>>
            ELSE load_op(get_loc(map, ins.src2), Scratch2))
        \o (IF ins.src1.t = "imm" THEN <<Asm("mov_reg_imm", 6, ins.src1.n, "")>>
            ELSE load_op(i_loc, 6))
        \o <<Asm3("mov_index_reg", base_reg, idx_reg, val_reg)>>

LowerCall(ins, idx, map, intervals) ==
    IF ins.src1.t # "lab" THEN <<>>
    ELSE LET to_save == ToSave(intervals, idx)
             odd == Cardinality(to_save) % 2 # 0
         IN  PushAll(to_save)
             \o (IF odd THEN <<Asm("add_rsp", -8, 0, "")>> ELSE <<>>)
             \o <<Asm("call", 0, 0, "fn_" \o ins.src1.s)>>
             \o (IF odd THEN <<Asm("add_rsp", 8, 0, "")>> ELSE <<>>)
             \o PopAll(to_save)
             \o store_op(get_loc(map, ins.dest), 0)

\* libc::malloc and libc::free as the code sees them: two addresses
MallocAddr == 50000
FreeAddr == 50001

\* the registers pushed around the call of malloc or free
HostSaved == <<1, 2, 3, 4, 6, 11, 12, 13>>

\* Alloc and Free: the address goes to register 0, the argument to rdi, and
\* the call is made between eight pushes and eight pops
LowerHostCall(ins, map) ==
    LET rdi == IF ins.op = "Alloc" /\ ins.src1.t = "imm"
               THEN <<Asm("mov_rdi_imm", ins.src1.n, 0, "")>>
               ELSE IF ins.src1.t = "reg"
               THEN load_op(map[ins.src1], Scratch1)
                    \o <<Asm("mov_rdi_reg", LoadReg(map[ins.src1], Scratch1), 0, "")>>
               ELSE <<>>
    IN  <<Asm("mov_reg_imm64", 0, IF ins.op = "Alloc" THEN MallocAddr ELSE FreeAddr, "")>>
        \o rdi
        \o [k \in 1..Len(HostSaved) |-> Asm("push_reg", HostSaved[k], 0, "")]
        \o <<Asm("call_reg", 0, 0, "")>>
        \o [k \in 1..Len(HostSaved) |-> Asm("pop_reg", HostSaved[Len(HostSaved) + 1 - k], 0, "")]
        \o (IF ins.op = "Alloc" THEN store_op(get_loc(map, ins.dest), 0) ELSE <<>>)

\* the match on instr.op.  The arm of Mul is left out (no program below has
\* it); VLoad, VStore and VAdd fall to `_ => {}`.
Lower(ins, idx, map, intervals, stack_size) ==
    CASE ins.op = "Mov" -> LowerMov(ins, map)
      [] ins.op = "Add" -> LowerArith(ins, map, "add_reg_reg", "add_reg_imm")
      [] ins.op = "Sub" -> LowerArith(ins, map, "sub_reg_reg", "sub_reg_imm")
      [] ins.op = "Jmp" -> IF ins.dest.t = "lab" THEN <<Asm("jmp", 0, 0, ins.dest.s)>> ELSE <<>>
      [] ins.op = "Jnz" ->
           IF ins.dest.t = "lab" /\ ins.src1.t = "reg"
           THEN LET c_reg == LoadReg(map[ins.src1], Scratch1)
                IN  load_op(map[ins.src1], Scratch1)
                    \o <<Asm("cmp_reg_imm", c_reg, 0, ""), Asm("jnz", c_reg, 0, ins.dest.s)>>
           ELSE <<>>
      [] ins.op = "Cmp" -> LowerCmp(ins, map)
      [] ins.op \in {"Je", "Jne", "Jl", "Jle", "Jg", "Jge"} ->
           IF ins.dest.t = "lab" THEN <<Asm(ins.op, 0, 0, ins.dest.s)>> ELSE <<>>
      [] ins.op = "LoadArg" -> store_op(get_loc(map, ins.dest), ArgPhys(ins.k))
      [] ins.op = "SetArg" ->
           IF ins.src1.t = "imm" THEN <<Asm("mov_reg_imm", ArgPhys(ins.k), ins.src1.n, "")>>
           ELSE IF ins.src1.t = "reg"
           THEN LET s == LoadReg(map[ins.src1], Scratch1)
                IN  load_op(map[ins.src1], Scratch1)
                    \o (IF s # ArgPhys(ins.k)
                        THEN <<Asm("mov_reg_reg", ArgPhys(ins.k), s, "")>> ELSE <<>>)
           ELSE <<>>
      [] ins.op = "Call" -> LowerCall(ins, idx, map, intervals)
      [] ins.op = "Ret" -> FrameLeave(stack_size)
      [] ins.op = "Load" -> LowerLoad(ins, map)
      [] ins.op = "Store" -> LowerStore(ins, map)
      [] ins.op \in {"Alloc", "Free"} -> LowerHostCall(ins, map)
      [] OTHER -> <<>>

\* the registers an instruction reads and the register it writes
Reads(ins) ==
    LET regs(S) == {op.n : op \in {x \in S : x.t = "reg"}}
    IN  CASE ins.op = "Mov" -> regs({ins.src1})
          [] ins.op \in {"Add", "Sub"} -> regs({ins.dest, ins.src1})
          [] ins.op = "Cmp" -> regs({ins.src1, ins.src2})
          [] ins.op \in {"Jnz", "SetArg", "Alloc", "Free"} -> regs({ins.src1})
          [] ins.op = "Load" -> regs({ins.src1, ins.src2})
          [] ins.op = "Store" -> regs({ins.dest, ins.src1, ins.src2})
          [] OTHER -> {}

Writes(ins) ==
    IF ins.op \in {"Mov", "Add", "Sub", "Load", "LoadArg", "Call", "Alloc"} /\ ins.dest.t = "reg"
    THEN ins.dest.n ELSE -1

\* the labels some jump reaches forwards
ForwardTargets(instrs) ==
    {instrs[i].dest.s : i \in {j \in DOMAIN instrs :
        /\ instrs[j].op \in JumpOps
        /\ instrs[j].dest.t = "lab"
        /\ LabelIndex(instrs, instrs[j].dest.s) > j}}

\* loop_headers: the labels some jump reaches backwards
LoopHeaders(instrs) == {instrs[i].dest.s : i \in {j \in DOMAIN instrs : IsBackEdge(instrs, j)}}

\* the bytes reserved below the pushed registers, without the adjustment
StackSizeRaw(spill_slots) == spill_slots * 8

\* stack_size: raw_stack_size, and 8 more if that is a multiple of 16
StackSize(spill_slots) ==
    LET raw_stack_size == spill_slots * 8
    IN  IF raw_stack_size % 16 = 0 THEN raw_stack_size + 8 ELSE raw_stack_size

\* the part of the loop body after the allocation: res is what
\* allocate_registers returned for the intervals
EmitFunction(name, f, instrs, intervals, res) ==
    LET stack_size == StackSize(res.slots)
        fail == "fuel_fail_" \o name
        one(i) ==
            LET ins == instrs[i]
                isLabel == ins.op = "Label" /\ ins.dest.t = "lab"
            IN  <<IrAt(f, i, IF isLabel THEN ins.dest.s ELSE "", Reads(ins), Writes(ins))>>
                \o (IF isLabel /\ ins.dest.s \in LoopHeaders(instrs)
                    THEN <<Asm("dec_reg", 5, 0, ""), Asm("jz", 0, 0, fail)>> ELSE <<>>)
                \o Lower(ins, i, res.map, intervals, stack_size)
    IN  [ops |-> <<IrAt(f, 0, "fn_" \o name, {}, -1)>>
                 \o Prologue \o FrameEnter(stack_size)
                 \o <<Asm("mov_reg_imm", 5, Fuel, "")>>
                 \o Concat(one, 1, Len(instrs))
                 \o <<[IrAt(f, Len(instrs) + 1, fail, {}, -1) EXCEPT !.c = 1],
                       Asm("mov_reg_imm", 0, -999, "")>>
                 \o FrameLeave(stack_size),
         map |-> res.map,
         intervals |-> intervals,
         instrs |-> instrs,
         stack_size |-> stack_size]

\* the body of `for func in &program.functions`, for function number f;
\* instrs are the instructions the optimizer left
CompileFunction(name, f, instrs) ==
    The({The({EmitFunction(name, f, instrs, intervals, res)
              : res \in {AllocateRegisters(
                            SelectSeq(intervals, LAMBDA iv : iv.operand.t = "reg"),
                            GprPool, CalleeSavedSize)}})
         : intervals \in {liveness_analysis(instrs)}})

\* the emitters that panic on the registers 11..13
EmitterPanics(op) ==
    \/ op.o \in {"add_reg_imm", "cmp_reg_imm", "jnz"} /\ op.a \notin 0..10
    \/ op.o = "cmp_reg_reg" /\ (op.a \notin 0..10 \/ op.b \notin 0..10)

(***************************************************************************)
(* The programs that are compiled and run                                  *)
(***************************************************************************)
\* fn main(a, b, c, n) { i = 0  label loop  if i == n goto end  x = a[i]
\*   y = b[i]  z = x + y  c[i] = z  i = i + 1  goto loop  label end  return 0 }
VecAddMain ==
    <<InsK("LoadArg", 0, R(10), NoOp), InsK("LoadArg", 1, R(11), NoOp),
      InsK("LoadArg", 2, R(12), NoOp), InsK("LoadArg", 3, R(13), NoOp),
      Ins("Mov", R(14), I(0), NoOp),
      Ins("Label", L("loop"), NoOp, NoOp),
      Ins("Cmp", NoOp, R(14), R(13)), Ins("Je", L("end"), NoOp, NoOp),
      Ins("Load", R(15), R(10), R(14)),
      Ins("Load", R(16), R(11), R(14)),
      Ins("Mov", R(17), R(15), NoOp), Ins("Add", R(17), R(16), NoOp),
      Ins("Store", R(12), R(14), R(17)),
      Ins("Mov", R(14), R(14), NoOp), Ins("Add", R(14), I(1), NoOp),
      Ins("Jmp", L("loop"), NoOp, NoOp),
      Ins("Label", L("end"), NoOp, NoOp),
      Ins("Mov", R(0), I(0), NoOp), Ins("Ret", NoOp, NoOp, NoOp)>>

\* fn main(n) { s = 0  i = 0  while i < n { j = 0  while j < n { s = s + 1
\*   j = j + 1 }  i = i + 1 }  return s }
NestedMain ==
    <<InsK("LoadArg", 0, R(10), NoOp),
      Ins("Mov", R(11), I(0), NoOp),
      Ins("Mov", R(12), I(0), NoOp),
      Ins("Label", L("while_start_1"), NoOp, NoOp),
      Ins("Cmp", NoOp, R(12), R(10)), Ins("Jl", L("while_body_2"), NoOp, NoOp),
      Ins("Jmp", L("while_end_3"), NoOp, NoOp),
      Ins("Label", L("while_body_2"), NoOp, NoOp),
      Ins("Mov", R(13), I(0), NoOp),
      Ins("Label", L("while_start_4"), NoOp, NoOp),
      Ins("Cmp", NoOp, R(13), R(10)), Ins("Jl", L("while_body_5"), NoOp, NoOp),
      Ins("Jmp", L("while_end_6"), NoOp, NoOp),
      Ins("Label", L("while_body_5"), NoOp, NoOp),
      Ins("Mov", R(11), R(11), NoOp), Ins("Add", R(11), I(1), NoOp),
      Ins("Mov", R(13), R(13), NoOp), Ins("Add", R(13), I(1), NoOp),
      Ins("Jmp", L("while_start_4"), NoOp, NoOp),
      Ins("Label", L("while_end_6"), NoOp, NoOp),
      Ins("Mov", R(12), R(12), NoOp), Ins("Add", R(12), I(1), NoOp),
      Ins("Jmp", L("while_start_1"), NoOp, NoOp),
      Ins("Label", L("while_end_3"), NoOp, NoOp),
      Ins("Mov", R(0), R(11), NoOp), Ins("Ret", NoOp, NoOp, NoOp)>>

\* fn main(n) { r = main(n)  return r }
RecMain ==
    <<InsK("LoadArg", 0, R(10), NoOp),
      InsK("SetArg", 0, R(1), R(10)),
      Ins("Call", R(11), L("main"), NoOp),
      Ins("Mov", R(0), R(11), NoOp), Ins("Ret", NoOp, NoOp, NoOp)>>

\* fn main(n) { a = n - 1  b = n - 2  c = n - 3  d = n - 4  x = mid(n)
\*   y = a - b  z = y - c  w = z - d  v = w - x  return v }
SpanMain ==
    <<InsK("LoadArg", 0, R(10), NoOp),
      Ins("Mov", R(11), R(10), NoOp), Ins("Sub", R(11), I(1), NoOp),
      Ins("Mov", R(12), R(10), NoOp), Ins("Sub", R(12), I(2), NoOp),
      Ins("Mov", R(13), R(10), NoOp), Ins("Sub", R(13), I(3), NoOp),
      Ins("Mov", R(14), R(10), NoOp), Ins("Sub", R(14), I(4), NoOp),
      InsK("SetArg", 0, R(1), R(10)),
      Ins("Call", R(15), L("mid"), NoOp),
      Ins("Mov", R(16), R(11), NoOp), Ins("Sub", R(16), R(12), NoOp),
      Ins("Mov", R(17), R(16), NoOp), Ins("Sub", R(17), R(13), NoOp),
      Ins("Mov", R(18), R(17), NoOp), Ins("Sub", R(18), R(14), NoOp),
      Ins("Mov", R(19), R(18), NoOp), Ins("Sub", R(19), R(15), NoOp),
      Ins("Mov", R(0), R(19), NoOp), Ins("Ret", NoOp, NoOp, NoOp)>>

\* fn mid(p) { q = pair(p, 7)  return q }
SpanMid ==
    <<InsK("LoadArg", 0, R(10), NoOp),
      InsK("SetArg", 0, R(1), R(10)), InsK("SetArg", 1, R(2), I(7)),
      Ins("Call", R(11), L("pair"), NoOp),
      Ins("Mov", R(0), R(11), NoOp), Ins("Ret", NoOp, NoOp, NoOp)>>

\* fn pair(u, v) { t = u - v  return t }
SpanPair ==
    <<InsK("LoadArg", 0, R(10), NoOp), InsK("LoadArg", 1, R(11), NoOp),
      Ins("Mov", R(12), R(10), NoOp), Ins("Sub", R(12), R(11), NoOp),
      Ins("Mov", R(0), R(12), NoOp), Ins("Ret", NoOp, NoOp, NoOp)>>

\* fn main() { x = add(10, 20)  return x }
CallMain ==
    <<InsK("SetArg", 0, R(1), I(10)), InsK("SetArg", 1, R(2), I(20)),
      Ins("Call", R(10), L("add"), NoOp),
      Ins("Mov", R(0), R(10), NoOp), Ins("Ret", NoOp, NoOp, NoOp)>>

\* fn add(a, b) { c = a + b  return c }
CallAdd ==
    <<InsK("LoadArg", 0, R(10), NoOp), InsK("LoadArg", 1, R(11), NoOp),
      Ins("Mov", R(12), R(10), NoOp), Ins("Add", R(12), R(11), NoOp),
      Ins("Mov", R(0), R(12), NoOp), Ins("Ret", NoOp, NoOp, NoOp)>>

\* fn main(n) { a = n - 1  b = n - 2  x = add(a, b)  y = x - a  z = y - b
\*   w = z - n  return w }
PassMain ==
    <<InsK("LoadArg", 0, R(10), NoOp),
      Ins("Mov", R(11), R(10), NoOp), Ins("Sub", R(11), I(1), NoOp),
      Ins("Mov", R(12), R(10), NoOp), Ins("Sub", R(12), I(2), NoOp),
      InsK("SetArg", 0, R(1), R(11)), InsK("SetArg", 1, R(2), R(12)),
      Ins("Call", R(13), L("add"), NoOp),
      Ins("Mov", R(14), R(13), NoOp), Ins("Sub", R(14), R(11), NoOp),
      Ins("Mov", R(15), R(14), NoOp), Ins("Sub", R(15), R(12), NoOp),
      Ins("Mov", R(16), R(15), NoOp), Ins("Sub", R(16), R(10), NoOp),
      Ins("Mov", R(0), R(16), NoOp), Ins("Ret", NoOp, NoOp, NoOp)>>

\* fn main() { v1 = 1 ... vk = k  x = leaf()  p = alloc(16)  free(p)
\*   return v1 + ... + vk + x }: k variables live across the three calls
MaxLive == 12

PressureMain(k) ==
    [i \in 1..k |-> Ins("Mov", R(10 + i), I(i), NoOp)]
    \o <<Ins("Call", R(30), L("leaf"), NoOp),
          Ins("Alloc", R(31), I(16), NoOp),
          Ins("Free", NoOp, R(31), NoOp)>>
    \o [i \in 1..(k - 1) |-> Ins("Add", R(11), R(11 + i), NoOp)]
    \o <<Ins("Add", R(11), R(30), NoOp),
          Ins("Mov", R(0), R(11), NoOp), Ins("Ret", NoOp, NoOp, NoOp)>>

\* fn leaf() { return 1 }
Leaf == <<Ins("Mov", R(0), I(1), NoOp), Ins("Ret", NoOp, NoOp, NoOp)>>

Fn(name, instrs) == [name |-> name, instructions |-> instrs]

Programs ==
    <<<<Fn("main", VecAddMain)>>,
      <<Fn("main", NestedMain)>>,
      <<Fn("main", RecMain)>>,
      <<Fn("main", SpanMain), Fn("mid", SpanMid), Fn("pair", SpanPair)>>,
      <<Fn("main", CallMain), Fn("add", CallAdd)>>,
      <<Fn("main", PassMain), Fn("add", CallAdd)>>>>
    \o [k \in 1..MaxLive |-> <<Fn("main", PressureMain(k)), Fn("leaf", Leaf)>>]

\* Compiler::compile_program(prog, opt_level): the code of all functions in
\* order, and what the compiler knew of each function
CompileProgram(program, opt_level) ==
    LET fn(f) == The({CompileFunction(program[f].name, f, instrs)
                      : instrs \in {optimize_function(program[f].instructions, opt_level)}})
        one(f) == <<fn(f)>>
        joined(all) == LET ops(f) == all[f].ops IN Concat(ops, 1, Len(program))
    IN  The({[code |-> joined(all),
              meta |-> [f \in DOMAIN program |->
                          [map |-> all[f].map, intervals |-> all[f].intervals,
                           instrs |-> all[f].instrs, stack_size |-> all[f].stack_size]]]
             : all \in {Concat(one, 1, Len(program))}})

(***************************************************************************)
(* The compiled code at run time                                           *)
(***************************************************************************)
\* The machine cpu: the registers reg (numbered as in get_hw_reg), rsp, rbp,
\* the flags of the last comparison (zf: equal, lt: signed less), the memory
\* mem (the stack of the calling thread and the three arrays of the caller),
\* the position pc in the code and the status of the run.

MaxN == 5
StackWords == 24

\* mov Rd(d), imm writes the low 32 bits and clears the high ones: a negative
\* immediate becomes imm + 2^32 (2^30 here: the integers of the model have 32 bits)
Zx32(imm) == IF imm < 0 THEN imm + 1073741824 ELSE imm

StackTop == 16 * StackWords + 8
StackCells == {8 * k : k \in 1..(2 * StackWords + 1)}
\* the addresses of the three arrays of the caller
Arrays == <<10000, 20000, 30000>>
ArrA == Arrays[1]
ArrB == Arrays[2]
ArrC == Arrays[3]
ArrayCells(n) == {base + 8 * k : base \in {ArrA, ArrB, ArrC}, k \in 0..(n - 1)}

\* where the caller expects the code to return
HostPc == 0

\* the position the label l is bound at
LabelPos(cd, l) == CHOOSE p \in DOMAIN cd : cd[p].o = "ir" /\ cd[p].l = l

Flags(mm, a, b) == [mm EXCEPT !.zf = (a = b), !.lt = (a < b)]
Jump(mm, cd, taken, l) == [mm EXCEPT !.pc = IF taken THEN LabelPos(cd, l) ELSE mm.pc + 1]
Segv(mm) == [mm EXCEPT !.status = "fault"]
SetReg(mm, r, v) == [mm EXCEPT !.reg[r] = v, !.pc = mm.pc + 1]

Push(mm, v) ==
    IF mm.rsp - 8 \notin DOMAIN mm.mem THEN Segv(mm)
    ELSE [mm EXCEPT !.rsp = mm.rsp - 8, !.mem[mm.rsp - 8] = v, !.pc = mm.pc + 1]

LoadCell(mm, addr, r) ==
    IF addr \notin DOMAIN mm.mem THEN Segv(mm) ELSE SetReg(mm, r, mm.mem[addr])

StoreCell(mm, addr, v) ==
    IF addr \notin DOMAIN mm.mem THEN Segv(mm)
    ELSE [mm EXCEPT !.mem[addr] = v, !.pc = mm.pc + 1]

\* mov_stack_reg(offset, src), the counterpart of mov_reg_stack: the register
\* src is stored at [rbp + offset]
MovStackReg(mm, offset, src) == StoreCell(mm, mm.rbp + offset, mm.reg[src])

\* malloc and free run on the stack below rsp and return: the result is in
\* register 0, and the registers the callee may use freely hold other values
HostCall(mm, f) ==
    [mm EXCEPT !.reg = [r \in DOMAIN mm.reg |->
                          IF r = 0 /\ f = MallocAddr THEN ArrC + 10000
                          ELSE IF is_caller_saved(r) THEN 800 + r ELSE mm.reg[r]],
               !.pc = mm.pc + 1]

\* what the instruction emitted by the call op of the builder does
ExecOp(mm, op, cd) ==
    CASE op.o = "ir" -> [mm EXCEPT !.pc = mm.pc + 1, !.fuelout = mm.fuelout \/ op.c = 1]
      [] op.o = "push_reg" -> Push(mm, mm.reg[op.a])
      [] op.o = "push_rbp" -> Push(mm, mm.rbp)
      [] op.o = "pop_reg" ->
           IF mm.rsp \notin DOMAIN mm.mem THEN Segv(mm)
           ELSE [mm EXCEPT !.reg[op.a] = mm.mem[mm.rsp], !.rsp = mm.rsp + 8, !.pc = mm.pc + 1]
      [] op.o = "pop_rbp" ->
           IF mm.rsp \notin DOMAIN mm.mem THEN Segv(mm)
           ELSE [mm EXCEPT !.rbp = mm.mem[mm.rsp], !.rsp = mm.rsp + 8, !.pc = mm.pc + 1]
      [] op.o = "mov_rbp_rsp" -> [mm EXCEPT !.rbp = mm.rsp, !.pc = mm.pc + 1]
      [] op.o = "lea_rsp_rbp" -> [mm EXCEPT !.rsp = mm.rbp + op.a, !.pc = mm.pc + 1]
      [] op.o = "add_rsp" -> [mm EXCEPT !.rsp = mm.rsp + op.a, !.pc = mm.pc + 1]
      [] op.o = "mov_reg_imm" -> SetReg(mm, op.a, Zx32(op.b))
      [] op.o = "mov_reg_imm64" -> SetReg(mm, op.a, op.b)
      [] op.o = "mov_rdi_imm" -> SetReg(mm, 11, op.a)
      [] op.o = "mov_rdi_reg" -> SetReg(mm, 11, mm.reg[op.a])
      [] op.o = "call_reg" -> HostCall(mm, mm.reg[op.a])
      [] op.o = "mov_reg_reg" -> SetReg(mm, op.a, mm.reg[op.b])
      [] op.o = "mov_reg_stack" -> LoadCell(mm, mm.rbp + op.b, op.a)
      [] op.o = "mov_stack_reg" -> MovStackReg(mm, op.a, op.b)
      [] op.o = "add_reg_reg" ->
           Flags(SetReg(mm, op.a, mm.reg[op.a] + mm.reg[op.b]), mm.reg[op.a] + mm.reg[op.b], 0)
      [] op.o = "add_reg_imm" ->
           Flags(SetReg(mm, op.a, mm.reg[op.a] + op.b), mm.reg[op.a] + op.b, 0)
      [] op.o = "sub_reg_reg" ->
           Flags(SetReg(mm, op.a, mm.reg[op.a] - mm.reg[op.b]), mm.reg[op.a], mm.reg[op.b])
      [] op.o = "sub_reg_imm" ->
           Flags(SetReg(mm, op.a, mm.reg[op.a] - op.b), mm.reg[op.a], op.b)
      [] op.o = "dec_reg" -> Flags(SetReg(mm, op.a, mm.reg[op.a] - 1), mm.reg[op.a], 1)
      [] op.o = "cmp_reg_reg" -> Flags([mm EXCEPT !.pc = mm.pc + 1], mm.reg[op.a], mm.reg[op.b])
      [] op.o = "cmp_reg_imm" -> Flags([mm EXCEPT !.pc = mm.pc + 1], mm.reg[op.a], op.b)
      [] op.o = "mov_reg_index" -> LoadCell(mm, mm.reg[op.b] + 8 * mm.reg[op.c], op.a)
      [] op.o = "mov_index_reg" -> StoreCell(mm, mm.reg[op.a] + 8 * mm.reg[op.b], mm.reg[op.c])
      [] op.o = "jmp" -> Jump(mm, cd, TRUE, op.l)
      [] op.o \in {"Je", "jz"} -> Jump(mm, cd, mm.zf, op.l)
      [] op.o = "Jne" -> Jump(mm, cd, ~mm.zf, op.l)
      [] op.o = "Jl" -> Jump(mm, cd, mm.lt, op.l)
      [] op.o = "Jle" -> Jump(mm, cd, mm.lt \/ mm.zf, op.l)
      [] op.o = "Jg" -> Jump(mm, cd, ~mm.lt /\ ~mm.zf, op.l)
      [] op.o = "Jge" -> Jump(mm, cd, ~mm.lt, op.l)
      [] op.o = "jnz" -> Jump(Flags(mm, mm.reg[op.a], 0), cd, mm.reg[op.a] # 0, op.l)
      [] op.o = "call" ->
           IF mm.rsp - 8 \notin DOMAIN mm.mem THEN Segv(mm)
           ELSE [mm EXCEPT !.rsp = mm.rsp - 8, !.mem[mm.rsp - 8] = mm.pc + 1,
                           !.pc = LabelPos(cd, op.l)]
      [] op.o = "ret" ->
           IF mm.rsp \notin DOMAIN mm.mem THEN Segv(mm)
           ELSE [mm EXCEPT !.pc = mm.mem[mm.rsp], !.rsp = mm.rsp + 8,
                           !.status = IF mm.mem[mm.rsp] = HostPc THEN "returned" ELSE "run"]

\* the registers and the memory the caller hands over: program 1 gets the
\* three arrays and their length, the others get n
HostRegs(p, n) ==
    [r \in 0..13 |->
        IF p = 1 THEN CASE r = 11 -> ArrA [] r = 12 -> ArrB [] r = 13 -> ArrC [] r = 6 -> n
                        [] OTHER -> 700 + r
        ELSE IF r = 11 THEN n ELSE 700 + r]

HostMem(n) ==
    [c \in StackCells \cup ArrayCells(n) |->
        IF c \in StackCells THEN (IF c = StackTop THEN HostPc ELSE 0)
        ELSE IF c >= ArrC THEN 0
        ELSE IF c >= ArrB THEN 10 * ((c - ArrB) \div 8 + 1)
        ELSE (c - ArrA) \div 8 + 1]

\* the call of the entry point: the return address is on the stack; there
\* is no code to call if an emitter panicked during compile_program
Entered(cd, p, n) ==
    [pc |-> LabelPos(cd, "fn_main"), reg |-> HostRegs(p, n), rsp |-> StackTop, rbp |-> 900,
     zf |-> FALSE, lt |-> FALSE, mem |-> HostMem(n),
     status |-> IF \E q \in DOMAIN cd : EmitterPanics(cd[q]) THEN "panic" ELSE "run",
     fuelout |-> FALSE]

\* what is known of one invocation: its function f, the value last written
\* to each register of the IR (vals), the instruction being executed (pi)
\* and the register it writes (pw), the Call just returned from (after) and
\* the machine registers at that call (snap)
Frame(f, regs) == [f |-> f, vals |-> <<>>, pw |-> -1, pi |-> 0, after |-> 0, snap |-> regs]

\* the value at a location of the current frame
ValueAt(mm, loc) == IF loc.k = "reg" THEN mm.reg[loc.v] ELSE mm.mem[mm.rbp + loc.v]

MachInit ==
    /\ prog \in DOMAIN Programs
    /\ arg \in 0..MaxN
    /\ level = 0
    /\ \E c \in {CompileProgram(Programs[prog], 0)} :
           /\ code = c.code
           /\ meta = c.meta
           /\ cpu = Entered(c.code, prog, arg)
    /\ frames = <<Frame(1, HostRegs(prog, arg))>>
    /\ results = <<>>

Running == cpu.status = "run" /\ cpu.pc \in DOMAIN code

\* the first byte of an IR instruction: the value its predecessor wrote is
\* recorded, and the instruction becomes the current one
ExecIr ==
    /\ Running
    /\ code[cpu.pc].o = "ir"
    /\ cpu' = ExecOp(cpu, code[cpu.pc], code)
    /\ LET top == frames[Len(frames)]
           fm == meta[top.f]
           wrote == top.pw >= 0 /\ R(top.pw) \in DOMAIN fm.map
           called == top.pi \in DOMAIN fm.instrs /\ fm.instrs[top.pi].op = "Call"
       IN  frames' = [frames EXCEPT ![Len(frames)] =
                        [top EXCEPT !.vals = IF wrote
                                             THEN (top.pw :> ValueAt(cpu, fm.map[R(top.pw)])) @@ top.vals
                                             ELSE top.vals,
                                    !.after = IF called THEN top.pi ELSE 0,
                                    !.pw = code[cpu.pc].wr,
                                    !.pi = code[cpu.pc].b]]
    /\ UNCHANGED <<code, meta, prog, arg, level, results, hotVars, memVars, sigVars, allocVars, extVars>>

\* moves, arithmetic, comparisons and the stack
ExecData ==
    /\ Running
    /\ code[cpu.pc].o \in {"push_reg", "push_rbp", "pop_reg", "pop_rbp", "mov_rbp_rsp",
                         "lea_rsp_rbp", "add_rsp", "mov_reg_imm", "mov_reg_reg",
                         "mov_reg_imm64", "mov_rdi_imm", "mov_rdi_reg",
                         "mov_reg_stack", "mov_stack_reg", "add_reg_reg", "add_reg_imm",
                         "sub_reg_reg", "sub_reg_imm", "dec_reg", "cmp_reg_reg",
                         "cmp_reg_imm", "mov_reg_index", "mov_index_reg"}
    /\ cpu' = ExecOp(cpu, code[cpu.pc], code)
    /\ UNCHANGED <<code, meta, prog, arg, level, frames, results,
                   hotVars, memVars, sigVars, allocVars, extVars>>

ExecJump ==
    /\ Running
    /\ code[cpu.pc].o \in {"jmp", "jz", "jnz", "Je", "Jne", "Jl", "Jle", "Jg", "Jge"}
    /\ cpu' = ExecOp(cpu, code[cpu.pc], code)
    /\ UNCHANGED <<code, meta, prog, arg, level, frames, results,
                   hotVars, memVars, sigVars, allocVars, extVars>>

ExecCall ==
    /\ Running
    /\ code[cpu.pc].o = "call"
    /\ cpu' = ExecOp(cpu, code[cpu.pc], code)
    /\ frames' = IF cpu'.status = "fault" THEN frames
                 ELSE Append([frames EXCEPT ![Len(frames)].snap = cpu.reg],
                             Frame(code[cpu'.pc].a, cpu.reg))
    /\ UNCHANGED <<code, meta, prog, arg, level, results, hotVars, memVars, sigVars, allocVars, extVars>>

\* call Rq(r): malloc or free
ExecHostCall ==
    /\ Running
    /\ code[cpu.pc].o = "call_reg"
    /\ cpu' = ExecOp(cpu, code[cpu.pc], code)
    /\ UNCHANGED <<code, meta, prog, arg, level, frames, results,
                   hotVars, memVars, sigVars, allocVars, extVars>>

ExecRet ==
    /\ Running
    /\ code[cpu.pc].o = "ret"
    /\ cpu' = ExecOp(cpu, code[cpu.pc], code)
    /\ frames' = IF Len(frames) > 1 THEN SubSeq(frames, 1, Len(frames) - 1) ELSE frames
    /\ UNCHANGED <<code, meta, prog, arg, level, results, hotVars, memVars, sigVars, allocVars, extVars>>

\* what the caller sees of a finished run
Outcome ==
    [status |-> cpu.status, ret |-> cpu.reg[0], fuelout |-> cpu.fuelout,
     out |-> [k \in 0..(arg - 1) |-> cpu.mem[ArrC + 8 * k]]]

\* the same program and input, compiled at the next level
NextLevel ==
    /\ cpu.status \in {"returned", "fault", "panic"}
    /\ level < 3
    /\ results' = Append(results, Outcome)
    /\ level' = level + 1
    /\ \E c \in {CompileProgram(Programs[prog], level + 1)} :
           /\ code' = c.code
           /\ meta' = c.meta
           /\ cpu' = Entered(c.code, prog, arg)
    /\ frames' = <<Frame(1, HostRegs(prog, arg))>>
    /\ UNCHANGED <<prog, arg, hotVars, memVars, sigVars, allocVars, extVars>>

LastLevel ==
    /\ cpu.status \in {"returned", "fault", "panic"}
    /\ level = 3
    /\ results' = Append(results, Outcome)
    /\ cpu' = [cpu EXCEPT !.status = "done"]
    /\ UNCHANGED <<code, meta, prog, arg, level, frames, hotVars, memVars, sigVars, allocVars, extVars>>

MachNext ==
    ExecIr \/ ExecData \/ ExecJump \/ ExecCall \/ ExecHostCall \/ ExecRet \/ NextLevel \/ LastLevel

MachIdle ==
    /\ prog = 1
    /\ arg = 0
    /\ level = 0
    /\ code = <<>>
    /\ meta = <<>>
    /\ cpu = [Entered(<<IrAt(1, 0, "fn_main", {}, -1)>>, 1, 0) EXCEPT !.status = "done"]
    /\ frames = <<>>
    /\ results = <<>>

(***************************************************************************)
(* ThreadSafeOptimizer (thread_safe.rs) over ContextualBandit               *)
(* (ai_optimizer.rs)                                                        *)
(***************************************************************************)
\* The f64 counters are kept in quarters: the prior 1.0 is 4, and the
\* arguments below give the ratios 0.0, 0.5 and 1.0.

NTsThreads == 2
MaxTsUpdates == 3

TsThreads == 1..NTsThreads

\* SizeBucket::from_size
from_size(n) ==
    CASE n <= 31 -> "Tiny"
      [] n <= 255 -> "Small"
      [] n <= 4095 -> "Medium"
      [] n <= 65535 -> "Large"
      [] OTHER -> "Huge"

\* SizeBucket::all
SizeBuckets == {"Tiny", "Small", "Medium", "Large", "Huge"}

\* the variant names the optimizer is built with; the arms are 0..len-1
TsVariants == <<"A", "B">>
TsArms == 0..(Len(TsVariants) - 1)

\* the arguments update() is called with: input_size, variant_idx (the last
\* one is out of range) and <<cycles, best_cycles>>
TsSizes == {10, 100}
TsIndexes == 0..Len(TsVariants)
TsCycles == {<<0, 80>>, <<100, 50>>, <<100, 100>>}

\* performance_ratio of update_with_performance, in quarters
PerformanceRatio(cycles, best_cycles) ==
    IF cycles > 0 THEN (4 * best_cycles) \div cycles ELSE 0

\* VariantBandit::new for every bucket: successes and failures are 1.0
NewBandits == [b \in SizeBuckets |-> [a \in TsArms |-> 4]]

\* the two additions exchanged
update_exchanged(bd, req) ==
    IF req.bucket \notin SizeBuckets \/ req.idx \notin TsArms THEN bd
    ELSE [succ |-> [bd.succ EXCEPT ![req.bucket][req.idx] = @ + (4 - req.ratio)],
          fail |-> [bd.fail EXCEPT ![req.bucket][req.idx] = @ + req.ratio]]

\* ContextualBandit::update_with_performance on the pair of tables bd
update_with_performance(bd, req) ==
    IF req.bucket \notin SizeBuckets \/ req.idx \notin TsArms THEN bd
    ELSE [succ |-> [bd.succ EXCEPT ![req.bucket][req.idx] = @ + req.ratio],
          fail |-> [bd.fail EXCEPT ![req.bucket][req.idx] = @ + (4 - req.ratio)]]

NoReq == [bucket |-> "Tiny", idx |-> 0, ratio |-> 0]

TsInit ==
    /\ tsLock = 0
    /\ tsSucc = NewBandits
    /\ tsFail = NewBandits
    /\ tsSerial = [succ |-> NewBandits, fail |-> NewBandits]
    /\ tsPc = [t \in TsThreads |-> "idle"]
    /\ tsReq = [t \in TsThreads |-> NoReq]
    /\ tsTmp = [t \in TsThreads |-> 0]
    /\ tsDone = [t \in TsThreads |-> 0]
    /\ tsSel = [b \in SizeBuckets |-> [a \in TsArms |-> 0]]
    /\ tsSelN = [b \in SizeBuckets |-> 0]

\* self.inner.write() returns only while no other guard exists
WriteLockAny == TRUE
WriteLockFree == tsLock = 0

TsStarted == Cardinality({t \in TsThreads : tsPc[t] # "idle"})
RECURSIVE TsReturned(_)
TsReturned(t) == IF t = 0 THEN 0 ELSE tsDone[t] + TsReturned(t - 1)
TsCalls == TsStarted + TsReturned(NTsThreads)

\* update(): the features are built and the write lock is taken; the bandit
\* of the bucket is looked up and variant_idx is checked
TsAcquire(t) ==
    /\ tsPc[t] = "idle"
    /\ TsCalls < MaxTsUpdates
    /\ WriteLockFree
    /\ \E size \in TsSizes, idx \in TsIndexes, cyc \in TsCycles :
          LET req == [bucket |-> from_size(size), idx |-> idx,
                      ratio |-> PerformanceRatio(cyc[1], cyc[2])]
          IN  /\ tsReq' = [tsReq EXCEPT ![t] = req]
              /\ tsSerial' = update_with_performance(tsSerial, req)
              /\ tsPc' = [tsPc EXCEPT ![t] = IF idx \in TsArms THEN "succ_ld" ELSE "drop"]
    /\ tsLock' = t
    /\ UNCHANGED <<tsSucc, tsFail, tsTmp, tsDone, tsSel, tsSelN, exceptTs>>

\* self.successes[variant_idx] += performance_ratio: the load
TsLoadSucc(t) ==
    /\ tsPc[t] = "succ_ld"
    /\ tsTmp' = [tsTmp EXCEPT ![t] = tsSucc[tsReq[t].bucket][tsReq[t].idx]]
    /\ tsPc' = [tsPc EXCEPT ![t] = "succ_st"]
    /\ UNCHANGED <<tsLock, tsSucc, tsFail, tsSerial, tsReq, tsDone, tsSel, tsSelN, exceptTs>>

\* ... and the store
TsStoreSucc(t) ==
    /\ tsPc[t] = "succ_st"
    /\ tsSucc' = [tsSucc EXCEPT ![tsReq[t].bucket][tsReq[t].idx] = tsTmp[t] + tsReq[t].ratio]
    /\ tsPc' = [tsPc EXCEPT ![t] = "fail_ld"]
    /\ UNCHANGED <<tsLock, tsFail, tsSerial, tsReq, tsTmp, tsDone, tsSel, tsSelN, exceptTs>>

\* self.failures[variant_idx] += 1.0 - performance_ratio: the load
TsLoadFail(t) ==
    /\ tsPc[t] = "fail_ld"
    /\ tsTmp' = [tsTmp EXCEPT ![t] = tsFail[tsReq[t].bucket][tsReq[t].idx]]
    /\ tsPc' = [tsPc EXCEPT ![t] = "fail_st"]
    /\ UNCHANGED <<tsLock, tsSucc, tsFail, tsSerial, tsReq, tsDone, tsSel, tsSelN, exceptTs>>

\* ... and the store
TsStoreFail(t) ==
    /\ tsPc[t] = "fail_st"
    /\ tsFail' = [tsFail EXCEPT ![tsReq[t].bucket][tsReq[t].idx] =
                     tsTmp[t] + (4 - tsReq[t].ratio)]
    /\ tsPc' = [tsPc EXCEPT ![t] = "drop"]
    /\ UNCHANGED <<tsLock, tsSucc, tsSerial, tsReq, tsTmp, tsDone, tsSel, tsSelN, exceptTs>>

\* Ok(()): the guard is dropped
TsRelease(t) ==
    /\ tsPc[t] = "drop"
    /\ tsLock' = 0
    /\ tsPc' = [tsPc EXCEPT ![t] = "idle"]
    /\ tsDone' = [tsDone EXCEPT ![t] = @ + 1]
    /\ tsTmp' = [tsTmp EXCEPT ![t] = 0]
    /\ tsReq' = [tsReq EXCEPT ![t] = NoReq]
    /\ UNCHANGED <<tsSucc, tsFail, tsSerial, tsSel, tsSelN, exceptTs>>

\* select(): the write lock is taken, the bandit of the bucket is looked up
\* and an arm is sampled (any arm can have the highest sample)
SelLockAny == TRUE
SelLockFree == tsLock = 0

TsSelAcquire(t) ==
    /\ tsPc[t] = "idle"
    /\ TsCalls < MaxTsUpdates
    /\ SelLockFree
    /\ \E size \in TsSizes, selected \in TsArms :
          tsReq' = [tsReq EXCEPT ![t] = [bucket |-> from_size(size), idx |-> selected,
                                         ratio |-> 0]]
    /\ tsLock' = t
    /\ tsPc' = [tsPc EXCEPT ![t] = "sel_ld"]
    /\ UNCHANGED <<tsSucc, tsFail, tsSerial, tsTmp, tsDone, tsSel, tsSelN, exceptTs>>

\* self.selections[selected] += 1: the load
TsLoadSel(t) ==
    /\ tsPc[t] = "sel_ld"
    /\ tsTmp' = [tsTmp EXCEPT ![t] = tsSel[tsReq[t].bucket][tsReq[t].idx]]
    /\ tsPc' = [tsPc EXCEPT ![t] = "sel_st"]
    /\ UNCHANGED <<tsLock, tsSucc, tsFail, tsSerial, tsReq, tsDone, tsSel, tsSelN, exceptTs>>

\* ... and the store
TsStoreSel(t) ==
    /\ tsPc[t] = "sel_st"
    /\ tsSel' = [tsSel EXCEPT ![tsReq[t].bucket][tsReq[t].idx] = tsTmp[t] + 1]
    /\ tsPc' = [tsPc EXCEPT ![t] = "sel_drop"]
    /\ UNCHANGED <<tsLock, tsSucc, tsFail, tsSerial, tsReq, tsTmp, tsDone, tsSelN, exceptTs>>

\* Ok(selected): the guard is dropped
TsSelRelease(t) ==
    /\ tsPc[t] = "sel_drop"
    /\ tsLock' = 0
    /\ tsPc' = [tsPc EXCEPT ![t] = "idle"]
    /\ tsDone' = [tsDone EXCEPT ![t] = @ + 1]
    /\ tsSelN' = [tsSelN EXCEPT ![tsReq[t].bucket] = @ + 1]
    /\ tsTmp' = [tsTmp EXCEPT ![t] = 0]
    /\ tsReq' = [tsReq EXCEPT ![t] = NoReq]
    /\ UNCHANGED <<tsSucc, tsFail, tsSerial, tsSel, exceptTs>>

TsNext ==
    \E t \in TsThreads :
        \/ TsAcquire(t) \/ TsLoadSucc(t) \/ TsStoreSucc(t)
        \/ TsLoadFail(t) \/ TsStoreFail(t) \/ TsRelease(t)
        \/ TsSelAcquire(t) \/ TsLoadSel(t) \/ TsStoreSel(t) \/ TsSelRelease(t)

(***************************************************************************)
(* ContextualBandit::update_with_performance called by one owner            *)
(* (ai_optimizer.rs)                                                        *)
(***************************************************************************)
MaxBdUpdates == 3

\* <<cycles, best_cycles>>: any two u64 are accepted; the ratios are
\* 0.0, 0.25, 0.5, 1.0 and 2.0
BdCycles == {<<0, 80>>, <<100, 25>>, <<100, 50>>, <<100, 100>>, <<50, 100>>}

NoReward == [b \in SizeBuckets |-> [a \in TsArms |-> -1]]

BdInit ==
    /\ bdTab = [succ |-> NewBandits, fail |-> NewBandits]
    /\ bdReq = NoReq
    /\ bdN = 0
    /\ bdLo = NoReward
    /\ bdHi = NoReward

\* bandit.update_with_performance(&features, variant_idx, cycles, best_cycles)
BdUpdate ==
    /\ bdN < MaxBdUpdates
    /\ \E size \in TsSizes, idx \in TsIndexes, cyc \in BdCycles :
          LET req == [bucket |-> from_size(size), idx |-> idx,
                      ratio |-> PerformanceRatio(cyc[1], cyc[2])]
          IN  /\ bdReq' = req
              /\ bdTab' = update_with_performance(bdTab, req)
              /\ IF idx \in TsArms
                   THEN /\ bdLo' = [bdLo EXCEPT ![req.bucket][idx] =
                                       IF @ = -1 \/ req.ratio < @ THEN req.ratio ELSE @]
                        /\ bdHi' = [bdHi EXCEPT ![req.bucket][idx] =
                                       IF @ < req.ratio THEN req.ratio ELSE @]
                   ELSE UNCHANGED <<bdLo, bdHi>>
    /\ bdN' = bdN + 1
    /\ UNCHANGED exceptBd

BdNext == BdUpdate

(***************************************************************************)
(* Optimizer::optimize_function, one round of `while changed` per step     *)
(* (optimizer.rs)                                                          *)
(***************************************************************************)
MaxFuncLen == 3

\* the instructions the short functions are made of
OptAlphabet ==
    {Ins("Mov", R(10), R(10), NoOp), Ins("Mov", R(10), I(1), NoOp),
     Ins("Add", R(10), I(2), NoOp), Ins("Label", L("loop"), NoOp, NoOp),
     Ins("Jmp", L("loop"), NoOp, NoOp), Ins("Ret", NoOp, NoOp, NoOp)}

\* the functions optimize_function is called on: every function of at most
\* MaxFuncLen instructions, and the functions of the programs above
OptInputs ==
    UNION {[1..n -> OptAlphabet] : n \in 0..MaxFuncLen}
    \cup {Programs[p][f].instructions : p \in DOMAIN Programs, f \in {1}}
    \cup {Programs[p][2].instructions : p \in {q \in DOMAIN Programs : Len(Programs[q]) >= 2}}

OpIdle ==
    /\ opIn = [instrs |-> <<>>, lvl |-> 0]
    /\ opFunc = <<>>
    /\ opPc = "idle"

OpInit ==
    /\ \E f \in OptInputs, lvl \in 0..3 : opIn = [instrs |-> f, lvl |-> lvl]
    /\ opFunc = opIn.instrs
    /\ opPc = "loop"

\* constant_folding computes func.instructions.len() - 1 in usize: with no
\* instruction left by remove_identity_moves the subtraction overflows (a
\* panic where overflow is checked; elsewhere the loop runs and indexes
\* instructions[0], a panic as well)
FoldUnderflows(instrs) == remove_identity_moves(instrs) = <<>>

\* one pass of `while changed`: the passes run in order, and the loop ends
\* when none of them reported a change
OptRound ==
    /\ opPc = "loop"
    /\ IF FoldUnderflows(opFunc)
         THEN /\ opPc' = "panicked"
              /\ opFunc' = <<>>
         ELSE \E next \in {OptimizeRound(opFunc, opIn.lvl)} :
                 /\ opFunc' = next
                 /\ opPc' = IF next = opFunc THEN "returned" ELSE "loop"
    /\ UNCHANGED <<opIn, exceptOp>>

OpNext == OptRound

(***************************************************************************)
(* Lifetime of the HotFunction and of its records (hot_function.rs)        *)
(***************************************************************************)

LifeInit == hotDropped = FALSE

\* the records built so far: the initial one and one per swap
Recs == 0..MaxUpdates

\* the HotFunction goes out of scope. Its owner holds it exclusively, so no
\* call or update is in progress. The struct has no Drop implementation and
\* its only field is an epoch Atomic, whose drop leaves the pointee alone:
\* nothing is retired and nothing is destroyed.
DropHotFunction ==
    /\ ~hotDropped
    /\ \A t \in Threads : hpc[t] = "idle"
    /\ hotDropped' = TRUE
    /\ UNCHANGED <<hotVars, exceptLife>>

\* call() and update() borrow the HotFunction, so they run only while it lives
LifeNext ==
    \/ ~hotDropped /\ HotNext
    \/ DropHotFunction

\* stage of a record: 0 Pending (not yet swapped in), 1 Published, 2 Retired
\* (swapped out, destruction deferred or about to be), 3 Reclaimed (Drop of
\* its DualMappedMemory has run)
Stage(r) ==
    CASE r \in freed -> 3
      [] r < current -> 2
      [] r = current -> 1
      [] OTHER -> 0

\* threads that may still read record r: those executing it
Readers(r) == {t \in Threads : held[t] = r}

(***************************************************************************)
(* Compiled variants and the C interface (variant_generator.rs, ffi.rs)    *)
(***************************************************************************)
NConfigs == 2
MaxVariantMems == 4

FfiInit ==
    /\ vmMapped = {}
    /\ vmNext = 0
    /\ vmVecs = {}
    /\ nanoFuncs = {}
    /\ ptrCalls = {}

\* generate_variants / compile_variant: the variants of the configurations that compiled, each
\* owning a fresh DualMappedMemory; k of the configurations compile
VariantMems(k) == (vmNext + 1)..(vmNext + k)

\* (self.func_ptr)(input) / (f.func_ptr)(input): an entry pointer into
\* memory m is invoked through `via`
Invoke(via, m) == ptrCalls \cup {[via |-> via, live |-> m \in vmMapped]}

\* a Rust caller runs generate_variants and keeps the Vec it returns
GenerateVariants ==
    /\ vmNext + NConfigs <= MaxVariantMems
    /\ \E k \in 0..NConfigs :
         /\ vmNext' = vmNext + k
         /\ vmMapped' = vmMapped \cup VariantMems(k)
         /\ vmVecs' = IF k = 0 THEN vmVecs ELSE vmVecs \cup {VariantMems(k)}
    /\ UNCHANGED <<nanoFuncs, ptrCalls, exceptFfi>>

\* CompiledVariant::execute on a variant of a Vec the caller holds
VariantExecute ==
    /\ \E v \in vmVecs : \E m \in v : ptrCalls' = Invoke("variant", m)
    /\ UNCHANGED <<vmMapped, vmNext, vmVecs, nanoFuncs, exceptFfi>>

\* the caller drops a Vec<CompiledVariant>: every variant's memory field is
\* dropped, which unmaps it
DropVariants ==
    /\ \E v \in vmVecs :
         /\ vmVecs' = vmVecs \ {v}
         /\ vmMapped' = vmMapped \ v
    /\ UNCHANGED <<vmNext, nanoFuncs, ptrCalls, exceptFfi>>

\* nanoforge_compile: null source, invalid text, a parse error or no variant
\* give a null handle; otherwise the handle copies variants[0].func_ptr, and
\* the local `variants` is dropped when the function returns
nanoforge_compile ==
    /\ vmNext + NConfigs <= MaxVariantMems
    /\ \E parsed \in BOOLEAN, k \in 0..NConfigs :
         IF ~parsed \/ k = 0
           THEN UNCHANGED <<vmMapped, vmNext, nanoFuncs>>
           ELSE /\ vmNext' = vmNext + k
                /\ nanoFuncs' = nanoFuncs \cup {vmNext + 1}
                /\ vmMapped' = (vmMapped \cup VariantMems(k)) \ VariantMems(k)
    /\ UNCHANGED <<vmVecs, ptrCalls, exceptFfi>>

\* nanoforge_execute: a null handle returns 0, any other handle's func_ptr is
\* invoked
nanoforge_execute ==
    /\ \E f \in nanoFuncs \cup {0} :
         ptrCalls' = IF f = 0 THEN ptrCalls ELSE Invoke("nano", f)
    /\ UNCHANGED <<vmMapped, vmNext, vmVecs, nanoFuncs, exceptFfi>>

\* nanoforge_free_function: the box of the handle is freed
nanoforge_free_function ==
    /\ \E f \in nanoFuncs : nanoFuncs' = nanoFuncs \ {f}
    /\ UNCHANGED <<vmMapped, vmNext, vmVecs, ptrCalls, exceptFfi>>

FfiNext ==
    \/ GenerateVariants
    \/ VariantExecute
    \/ DropVariants
    \/ nanoforge_compile
    \/ nanoforge_execute
    \/ nanoforge_free_function

(***************************************************************************)
(* liveness_analysis on arbitrary loop shapes (compiler.rs)                *)
(***************************************************************************)
LiveLen == 6

\* the instructions the functions are made of: two labels, a jump to each,
\* and a use of each of two registers
LiveAlphabet ==
    {Ins("Label", L("A"), NoOp, NoOp), Ins("Label", L("B"), NoOp, NoOp),
     Ins("Jmp", L("A"), NoOp, NoOp), Ins("Jne", L("B"), NoOp, NoOp),
     Ins("Mov", R(10), I(0), NoOp), Ins("Add", R(11), R(11), I(1))}

LiveIdle ==
    /\ lvInstrs = <<>>
    /\ lvIntervals = <<>>
    /\ lvPhase = "idle"

LiveInit ==
    /\ lvInstrs \in [1..LiveLen -> LiveAlphabet]
    /\ lvIntervals = <<>>
    /\ lvPhase = "parsed"

\* let intervals = liveness_analysis(func);
Analyse ==
    /\ lvPhase = "parsed"
    /\ lvIntervals' = liveness_analysis(lvInstrs)
    /\ lvPhase' = "done"
    /\ UNCHANGED <<lvInstrs, exceptLive>>

LiveNext == Analyse

(***************************************************************************)
(* vec_add_i64 and its AVX2 routine (array_ops.rs)                         *)
(***************************************************************************)
MaxVecLen == 22

\* element indices of the memory around the arrays: a 16-wide step that
\* starts below MaxVecLen stays inside
VecCells == 0..(MaxVecLen + 16)

\* the contents of a and b: a[k] = k + 1, b[k] = scale * (k + 1)
VecA(k) == k + 1
VecB(k) == vaIn.scale * (k + 1)

VaIdle ==
    /\ vaIn = [la |-> 0, lb |-> 0, lc |-> 0, scale |-> 0, avx |-> FALSE]
    /\ vaN = 0
    /\ vaI = 0
    /\ vaPc = "idle"
    /\ vaC = [k \in VecCells |-> 0]
    /\ vaLog = [k \in VecCells |-> <<>>]
    /\ vaReads = {}

\* the calls: one array has n elements, n in 0..MaxVecLen, the other two
\* have n or MaxVecLen elements; c holds -1 everywhere
VaInit ==
    /\ \E n \in 0..MaxVecLen, la, lb, lc \in 0..MaxVecLen, sc \in {2, 10}, avx \in BOOLEAN :
         /\ {la, lb, lc} \subseteq {n, MaxVecLen}
         /\ n \in {la, lb, lc}
         /\ vaIn = [la |-> la, lb |-> lb, lc |-> lc, scale |-> sc, avx |-> avx]
    /\ vaN = 0
    /\ vaI = 0
    /\ vaPc = "start"
    /\ vaC = [k \in VecCells |-> -1]
    /\ vaLog = [k \in VecCells |-> <<>>]
    /\ vaReads = {}

Min2(a, b) == IF a <= b THEN a ELSE b

\* the remaining elements allow a 16-wide / a 4-wide step:
\* mov rax, rbx; sub rax, rcx; cmp rax, w; jl next
Wide4FitsLoose(n, i) == n - i >= 3
Wide16Fits(n, i) == n - i >= 16
Wide4Fits(n, i) == n - i >= 4

\* the elements i .. i + w - 1 are loaded from a and b, added and stored to c
AddLanes(i, w, by) ==
    /\ vaReads' = vaReads \cup (i..(i + w - 1))
    /\ vaC' = [k \in VecCells |-> IF k \in i..(i + w - 1) THEN VecA(k) + VecB(k) ELSE vaC[k]]
    /\ vaLog' = [k \in VecCells |-> IF k \in i..(i + w - 1) THEN Append(vaLog[k], by) ELSE vaLog[k]]
    /\ vaI' = i + w

\* vec_add_i64: n, then the choice between the AVX2 routine and the scalar
\* fallback; the routine starts with xor rcx, rcx
VaEnter ==
    /\ vaPc = "start"
    /\ vaN' = Min2(Min2(vaIn.la, vaIn.lb), vaIn.lc)
    /\ vaPc' = IF vaIn.avx /\ vaN' >= 16 THEN "loop16" ELSE "fallback"
    /\ vaI' = 0
    /\ UNCHANGED <<vaIn, vaC, vaLog, vaReads, exceptVa>>

\* ->vec_loop_16: four YMM registers of four elements each per pass
VaLoop16 ==
    /\ vaPc = "loop16"
    /\ IF Wide16Fits(vaN, vaI)
         THEN AddLanes(vaI, 16, "w16") /\ UNCHANGED vaPc
         ELSE vaPc' = "loop4" /\ UNCHANGED <<vaI, vaC, vaLog, vaReads>>
    /\ UNCHANGED <<vaIn, vaN, exceptVa>>

\* ->vec_loop_4: one YMM register per pass
VaLoop4 ==
    /\ vaPc = "loop4"
    /\ IF Wide4Fits(vaN, vaI)
         THEN AddLanes(vaI, 4, "w4") /\ UNCHANGED vaPc
         ELSE vaPc' = "scalar" /\ UNCHANGED <<vaI, vaC, vaLog, vaReads>>
    /\ UNCHANGED <<vaIn, vaN, exceptVa>>

\* ->scalar_cleanup: cmp rcx, rbx; jge ->done; one element per pass
VaScalar ==
    /\ vaPc = "scalar"
    /\ IF vaI >= vaN
         THEN vaPc' = "done" /\ UNCHANGED <<vaI, vaC, vaLog, vaReads>>
         ELSE AddLanes(vaI, 1, "s") /\ UNCHANGED vaPc
    /\ UNCHANGED <<vaIn, vaN, exceptVa>>

\* for i in 0..n { c[i] = a[i] + b[i]; }
VaFallback ==
    /\ vaPc = "fallback"
    /\ IF vaI >= vaN
         THEN vaPc' = "done" /\ UNCHANGED <<vaI, vaC, vaLog, vaReads>>
         ELSE AddLanes(vaI, 1, "f") /\ UNCHANGED vaPc
    /\ UNCHANGED <<vaIn, vaN, exceptVa>>

VaNext == VaEnter \/ VaLoop16 \/ VaLoop4 \/ VaScalar \/ VaFallback

(***************************************************************************)
(* VariantGenerator::generate_variants (variant_generator.rs)              *)
(***************************************************************************)
MaxNewFailures == 5

\* fn main(a, b, c, d, e) { s = a + e  return s }
FiveMain ==
    <<InsK("LoadArg", 0, R(10), NoOp), InsK("LoadArg", 1, R(11), NoOp),
      InsK("LoadArg", 2, R(12), NoOp), InsK("LoadArg", 3, R(13), NoOp),
      InsK("LoadArg", 4, R(14), NoOp),
      Ins("Mov", R(15), R(10), NoOp), Ins("Add", R(15), R(14), NoOp),
      Ins("Mov", R(0), R(15), NoOp), Ins("Ret", NoOp, NoOp, NoOp)>>

\* the programs handed to generate_variants: those above, a function of five
\* parameters, and a function without instructions
GenPrograms == Programs \o <<<<Fn("main", FiveMain)>>, <<Fn("main", <<>>)>>>>

\* VariantConfig::new(isa, unroll_factor, opt_level)
VariantConfig(isa, unroll, lvl) == [isa |-> isa, unroll |-> unroll, lvl |-> lvl]

\* get_variant_configs: the scalar configurations, then those of the
\* extensions the CPU has
get_variant_configs(feat) ==
    <<VariantConfig("Scalar", 1, 1), VariantConfig("Scalar", 2, 2),
      VariantConfig("Scalar", 4, 2), VariantConfig("Scalar", 8, 2),
      VariantConfig("Scalar", 16, 2)>>
    \o (IF feat.avx2 THEN <<VariantConfig("Avx2", 2, 3), VariantConfig("Avx2", 4, 3),
                             VariantConfig("Avx2", 8, 3)>> ELSE <<>>)
    \o (IF feat.avx512 THEN <<VariantConfig("Avx512", 4, 3), VariantConfig("Avx512", 8, 3),
                               VariantConfig("Avx512", 16, 3)>> ELSE <<>>)
    \o (IF feat.amx THEN <<VariantConfig("Amx", 1, 3)>> ELSE <<>>)

\* compile_variant: opt_level of a configuration
OptLevel(config) == IF config.isa = "Scalar" THEN Min2(config.lvl, 2) ELSE 3

\* how Optimizer::optimize_program and Compiler::compile_program(&prog,
\* opt_level) end: constant_folding panics on a function without
\* instructions, LoadArg and SetArg panic on an index above 3, the emitters
\* of x64.rs panic on the registers they do not encode; otherwise Ok
CompileOutcome(program, lvl) ==
    IF \E f \in DOMAIN program : FoldUnderflows(program[f].instructions)
      THEN "panic"
    ELSE IF \E f \in DOMAIN program :
          \E ins \in Range(optimize_function(program[f].instructions, lvl)) :
              ins.op \in {"LoadArg", "SetArg"} /\ ins.k \notin 0..3
      THEN "panic"
      ELSE The({IF \E q \in DOMAIN c.code : EmitterPanics(c.code[q]) THEN "panic" ELSE "ok"
                : c \in {CompileProgram(program, lvl)}})

GvIdle ==
    /\ gvIn = [prog |-> 1, feat |-> [avx2 |-> FALSE, avx512 |-> FALSE, amx |-> FALSE]]
    /\ gvCompile = <<>>
    /\ gvIdx = 1
    /\ gvVariants = <<>>
    /\ gvSkipped = {}
    /\ gvStatus = "idle"

GvInit ==
    /\ \E p \in DOMAIN GenPrograms, a, b, c \in BOOLEAN :
         gvIn = [prog |-> p, feat |-> [avx2 |-> a, avx512 |-> b, amx |-> c]]
    /\ gvCompile = [lvl \in 1..3 |-> CompileOutcome(GenPrograms[gvIn.prog], lvl)]
    /\ gvIdx = 1
    /\ gvVariants = <<>>
    /\ gvSkipped = {}
    /\ gvStatus = "running"

GvConfigs == get_variant_configs(gvIn.feat)

\* one pass of `for config in configs`: compile_variant panics, or returns
\* Err because DualMappedMemory::new failed (the variant is skipped), or
\* returns the variant, which is pushed
CompileVariant ==
    /\ gvStatus = "running"
    /\ gvIdx <= Len(GvConfigs)
    /\ IF gvCompile[OptLevel(GvConfigs[gvIdx])] = "panic"
         THEN /\ gvStatus' = "panicked"
              /\ UNCHANGED <<gvIdx, gvVariants, gvSkipped>>
         ELSE /\ gvIdx' = gvIdx + 1
              /\ UNCHANGED gvStatus
              /\ \/ /\ gvVariants' = Append(gvVariants, gvIdx)
                    /\ UNCHANGED gvSkipped
                 \/ /\ Cardinality(gvSkipped) < MaxNewFailures
                    /\ gvSkipped' = gvSkipped \cup {gvIdx}
                    /\ UNCHANGED gvVariants
    /\ UNCHANGED <<gvIn, gvCompile, exceptGv>>

\* after the loop: Err if no variant compiled, else Ok(variants)
GvReturn ==
    /\ gvStatus = "running"
    /\ gvIdx > Len(GvConfigs)
    /\ gvStatus' = IF gvVariants = <<>> THEN "Err" ELSE "Ok"
    /\ UNCHANGED <<gvIn, gvCompile, gvIdx, gvVariants, gvSkipped, exceptGv>>

GvNext == CompileVariant \/ GvReturn

(***************************************************************************)
(* Specifications                                                          *)
(***************************************************************************)
AllocIdle ==
    /\ aIntervals = <<>>
    /\ aIdx = 1
    /\ aState = AllocStart(<<>>)
    /\ aPhase = "done"

\* the parts added after the first five start in their initial state
ExtInit == TsInit /\ LifeInit /\ FfiInit /\ LiveIdle /\ VaIdle /\ GvIdle /\ BdInit /\ OpIdle /\ RsInit /\ EvIdle

Init == HotInit /\ MemInit /\ SigInit /\ AllocIdle /\ MachIdle /\ ExtInit

Next == HotNext
Spec == Init /\ [][Next]_vars

SpecMem == Init /\ [][MemNext]_vars

SpecSig == Init /\ [][SigNext]_vars

InitAlloc == HotInit /\ MemInit /\ SigInit /\ AllocInit /\ MachIdle /\ ExtInit
SpecAlloc == InitAlloc /\ [][AllocNext]_vars

InitMach == HotInit /\ MemInit /\ SigInit /\ AllocIdle /\ MachInit /\ ExtInit
SpecMach == InitMach /\ [][MachNext]_vars

SpecTs == Init /\ [][TsNext]_vars

InitLive == HotInit /\ MemInit /\ SigInit /\ AllocIdle /\ MachIdle /\ TsInit /\ LifeInit /\ FfiInit /\ LiveInit /\ VaIdle /\ GvIdle /\ BdInit /\ OpIdle /\ RsInit /\ EvIdle
SpecLive == InitLive /\ [][LiveNext]_vars

InitVa == HotInit /\ MemInit /\ SigInit /\ AllocIdle /\ MachIdle /\ TsInit /\ LifeInit /\ FfiInit /\ LiveIdle /\ VaInit /\ GvIdle /\ BdInit /\ OpIdle /\ RsInit /\ EvIdle
SpecVa == InitVa /\ [][VaNext]_vars

InitGv == HotInit /\ MemInit /\ SigInit /\ AllocIdle /\ MachIdle /\ TsInit /\ LifeInit /\ FfiInit /\ LiveIdle /\ VaIdle /\ GvInit /\ BdInit /\ OpIdle /\ RsInit /\ EvIdle
SpecGv == InitGv /\ [][GvNext]_vars

InitOp == HotInit /\ MemInit /\ SigInit /\ AllocIdle /\ MachIdle /\ TsInit /\ LifeInit /\ FfiInit /\ LiveIdle /\ VaIdle /\ GvIdle /\ BdInit /\ OpInit /\ RsInit /\ EvIdle
SpecOp == InitOp /\ [][OpNext]_vars /\ WF_vars(OpNext)

SpecBd == Init /\ [][BdNext]_vars

SpecRs == Init /\ [][RsNext]_vars

InitEv == HotInit /\ MemInit /\ SigInit /\ AllocIdle /\ MachIdle /\ TsInit /\ LifeInit /\ FfiInit /\ LiveIdle /\ VaIdle /\ GvIdle /\ BdInit /\ OpIdle /\ RsInit /\ EvInit
SpecEv == InitEv /\ [][EvNext]_vars

SpecFfi == Init /\ [][FfiNext]_vars

\* every thread that can take a step of call or update eventually takes it,
\* and the owner eventually lets the HotFunction go
SpecLife == Init /\ [][LifeNext]_vars /\ WF_vars(LifeNext)

(***************************************************************************)
(* Claims on HotFunction                                                   *)
(***************************************************************************)

\* C1: after update(v) has returned, a call that starts afterwards invokes the
\* entry of v or of a record installed later, never of an older record.
C1_HotSwapVisibility ==
    \A t \in Threads : hpc[t] = "c_exec" => held[t] >= floorRec[t]

\* a call that started after an update returned is executing the new record
C1_Witness ==
    \E t \in Threads : hpc[t] = "c_exec" /\ floorRec[t] >= 1 /\ held[t] >= 1

\* C2: a record replaced by update is not destroyed while a thread that
\* loaded it inside call may still be executing it.
C2_NoUseAfterFree ==
    \A t \in Threads : hpc[t] = "c_exec" => held[t] \notin freed

\* a record that a reader held when it was swapped out has later been destroyed
C2_Witness ==
    \E r \in retiredHeld : r \in freed

\* a record is queued for destruction at most once and never again after its
\* destructor has run
NeverTwice ==
    \A g \in garbage :
        /\ g.rec \notin freed
        /\ \A h \in garbage : h.rec = g.rec => h = g

\* no thread is still executing a record whose destructor has run
AfterLastReader == \A r \in freed : Readers(r) = {}

\* a record moves through Pending, Published, Retired, Reclaimed one stage at
\* a time and never backwards
StageOrder == \A r \in Recs : Stage(r)' \in {Stage(r), Stage(r) + 1}

\* no thread reads r and none can start to: r was swapped out, or it is the
\* published record of a HotFunction that is gone
NoReaderRemains(r) ==
    /\ Readers(r) = {}
    /\ r < current \/ (r = current /\ hotDropped)

\* C12: for every JittedCode record held by a HotFunction, the initial one
\* and each one installed by update, the destructor of its memory runs exactly
\* once: never twice, never while a thread may still read it, and eventually
\* once no reader remains, in the order Pending, Published, Retired, Reclaimed.
C12_ReclaimedExactlyOnce ==
    /\ [](NeverTwice /\ AfterLastReader)
    /\ [][StageOrder]_vars
    /\ \A r \in Recs : (r <= current /\ NoReaderRemains(r)) ~> (r \in freed)

\* C13: every entry pointer handed to a caller (a CompiledVariant's func_ptr,
\* the NanoFunction returned by nanoforge_compile) refers to a mapping that
\* is still mapped whenever it is invoked.
C13_LiveWhenInvoked == \A c \in ptrCalls : c.live

(***************************************************************************)
(* Claims on DualMappedMemory                                              *)
(***************************************************************************)

\* C3: for every live ExecMemory, in every state from construction to drop,
\* the RW mapping has no execute permission and the RX mapping has no write
\* permission; no mapping is writable and executable at once.
C3_WXorX ==
    \A mp \in mappings :
        /\ ~({"W", "X"} \subseteq mp.prot)
        /\ (mp.view = "rw" => "X" \notin mp.prot)
        /\ (mp.view = "rx" => "W" \notin mp.prot)

\* a fully constructed memory whose code was written through RW and run through RX
C3_Witness ==
    \E m \in Mems :
        /\ mpc[m] = "live" /\ written[m] /\ executed[m]
        /\ {mp.view : mp \in MappingsOf(m)} = {"rw", "rx"}

\* DualMappedMemory::new returned Err for m, or m was dropped
Ended(m) == mpc[m] \in {"failed", "dropped"}

\* C14: when a step of DualMappedMemory::new fails, new returns an error and
\* the file descriptor and the mappings acquired by the earlier steps have
\* each been released exactly once; on every path, failed or dropped, nothing
\* acquired stays open or mapped and nothing is released twice or unacquired.
C14_ReleasedExactlyOnce ==
    \A m \in Mems :
        /\ \A r \in Resources : released[m][r] <= (IF r \in acquired[m] THEN 1 ELSE 0)
        /\ Ended(m) => /\ \A r \in acquired[m] : released[m][r] = 1
                       /\ m \notin fdOpen
                       /\ MappingsOf(m) = {}
        /\ ~Ended(m) => \A r \in Resources : released[m][r] = 0

\* the RX mapping failed after the fd and the RW view were acquired, and
\* another memory went all the way to its drop
C14_Witness ==
    \E m, n \in Mems :
        /\ mpc[m] = "failed" /\ acquired[m] = {"fd", "rw"}
        /\ mpc[n] = "dropped" /\ acquired[n] = Resources

(***************************************************************************)
(* Claims on run_safely                                                    *)
(***************************************************************************)

\* C10: a fatal signal raised on thread T inside run_safely always transfers
\* control to T's own recovery point; it never jumps to a recovery point that
\* another thread registered and is never left without one.
C10_OwnRecoveryPoint ==
    \A t \in SigThreads : outcome[t] \in {"none", "own"}

(***************************************************************************)
(* Claims on the register allocator                                        *)
(***************************************************************************)
SameRegister(st, a, b) ==
    /\ st.map[a.operand].k = "reg"
    /\ st.map[b.operand].k = "reg"
    /\ st.map[a.operand].v = st.map[b.operand].v

\* the index of the last instruction that names the operand
LastUse(instrs, op) == SetMax({i \in DOMAIN instrs : op \in OperandsAt(instrs[i])})

\* C16: for every backward branch at index b to a label at index t < b, every
\* operand whose interval covers t (start <= t <= end) has an interval that
\* ends at b or later, for nested and overlapping loops alike.
C16_LiveAcrossBackEdges ==
    lvPhase = "done" =>
        \A e \in Range(BackEdges(lvInstrs)) : \A iv \in Range(lvIntervals) :
            (iv.start <= e.head /\ e.head <= iv.end) => iv.end >= e.tail

\* two overlapping loops, and an operand last named before the second loop's
\* head whose interval reaches the second loop's tail
C16_Witness ==
    /\ lvPhase = "done"
    /\ \E e1, e2 \in Range(BackEdges(lvInstrs)) : \E iv \in Range(lvIntervals) :
          /\ e1.head < e2.head /\ e2.head < e1.tail /\ e1.tail < e2.tail
          /\ iv.start <= e1.head
          /\ LastUse(lvInstrs, iv.operand) < e2.head
          /\ iv.end = e2.tail

\* C15: in the allocator's map Reg(0) stays in the return register and
\* Reg(1)..Reg(4) each in its fixed register, whatever the pressure: a
\* pre-coloured operand is never spilled or moved.
C15_PreColouredFixed ==
    \A iv \in PreColored(aIntervals) : aState.map[iv.operand] = LocRegister(iv.operand.n)

\* C6: in the map the allocator returns, two operands located in the same
\* physical register have live intervals that do not overlap, except where
\* the last use of one is the first use of the other.
C6_NonAliasing ==
    aPhase = "done" =>
        \A i, j \in DOMAIN aIntervals :
            (i # j /\ SameRegister(aState, aIntervals[i], aIntervals[j]))
                => \/ aIntervals[i].end <= aIntervals[j].start
                   \/ aIntervals[j].end <= aIntervals[i].start

\* the allocator returned after an eviction, with a pre-coloured interval in
\* the list and two operands sharing a register
C6_Witness ==
    /\ aPhase = "done"
    /\ aState.slots > 0
    /\ PreColored(aIntervals) # {}
    /\ \E i, j \in DOMAIN aIntervals :
          /\ i # j
          /\ SameRegister(aState, aIntervals[i], aIntervals[j])
          /\ aIntervals[i].end = aIntervals[j].start
          /\ aIntervals[i].start < aIntervals[i].end
    /\ \E i \in DOMAIN aIntervals :
          /\ aState.map[aIntervals[i].operand].k = "spill"
          /\ \E j \in DOMAIN aIntervals : j > i /\ aState.map[aIntervals[j].operand].k = "reg"
                /\ aIntervals[j].end < aIntervals[i].end

(***************************************************************************)
(* Claims on compiled programs                                             *)
(***************************************************************************)
\* the machine stands at the first emitted instruction of an IR instruction
AtInstr == Running /\ cpu.pc > 1 /\ code[cpu.pc - 1].o = "ir" /\ frames # <<>>

Top == frames[Len(frames)]

\* the caller-saved registers that hold an operand live across the Call at idx
SpanRegs(fm, idx) ==
    {fm.map[iv.operand].v : iv \in {x \in Range(fm.intervals) :
        /\ x.operand.t = "reg"
        /\ x.start < idx /\ x.end > idx
        /\ fm.map[x.operand].k = "reg"
        /\ is_caller_saved(fm.map[x.operand].v)}}

\* C4: every run of a compiled entry ends by returning to its caller; no
\* run goes on until the machine faults.
C4_FuelTermination == cpu.status # "fault"

\* the registers the prologue saves: R15, RBX, R12, R13, R14
CalleeSaved == {5, 7, 8, 9, 10}

\* C17: when the fuel of a function runs out at a loop header, the function
\* returns the sentinel -999 to its caller through the fuel-exhaustion
\* epilogue, with its frame unwound (stack and frame pointer as at entry) and
\* the callee-saved registers holding their values at entry.
C17_FuelSentinel ==
    (cpu.status = "returned" /\ cpu.fuelout) =>
        /\ cpu.reg[0] = -999
        /\ cpu.rsp = StackTop + 8
        /\ cpu.rbp = Entered(code, prog, arg).rbp
        /\ \A r \in CalleeSaved : cpu.reg[r] = HostRegs(prog, arg)[r]

\* C5: when the run at level 0 returns without running out of fuel, the runs
\* at the other levels return the same value and leave the same array.
C5_LevelEquivalence ==
    (results # <<>> /\ results[1].status = "returned" /\ ~results[1].fuelout)
        => \A k \in DOMAIN results :
              /\ results[k].status = "returned"
              /\ results[k].ret = results[1].ret
              /\ results[k].out = results[1].out

\* C7: when an instruction reads a register of the IR, the location the
\* allocator gave the register holds the value last written to it.
C7_LivenessSound ==
    AtInstr =>
        \A v \in code[cpu.pc - 1].rd :
            v \in DOMAIN Top.vals => ValueAt(cpu, meta[Top.f].map[R(v)]) = Top.vals[v]

\* C8: an operand that is live across a Call in a caller-saved register has,
\* right after the call, the value it had right before it.
C8_CallerSaved ==
    (AtInstr /\ Top.after # 0) =>
        \A r \in SpanRegs(meta[Top.f], Top.after) : cpu.reg[r] = Top.snap[r]

\* the frame of the caller of the running function
Caller == frames[Len(frames) - 1]

\* the value the caller passed as argument k of the call it is in: the
\* source of the last SetArg(k) before the Call
Passed(k) ==
    LET ci == meta[Caller.f].instrs
        at == SetMax({j \in 1..(Caller.pi - 1) : ci[j].op = "SetArg" /\ ci[j].k = k})
    IN  IF ci[at].src1.t = "imm" THEN ci[at].src1.n ELSE Caller.vals[ci[at].src1.n]

\* the instruction the running function has just completed
Previous == meta[Top.f].instrs[Top.pi - 1]

\* the machine is about to execute a call instruction of a function body
AtCall == Running /\ code[cpu.pc].o \in {"call", "call_reg"}

\* C25: at every call instruction of a function body (an IR Call, and the
\* calls of malloc and free for Alloc and Free) the stack pointer is a
\* multiple of 16, whatever the number of spill slots and of registers
\* pushed around the call.
C25_CallsAligned == AtCall => cpu.rsp % 16 = 0

\* malloc is about to be called, after its eight pushes, in a function that
\* has at least two spill slots
C25_Witness ==
    /\ AtCall
    /\ code[cpu.pc].o = "call_reg"
    /\ cpu.reg[0] = MallocAddr
    /\ code[cpu.pc - 1].o = "push_reg"
    /\ meta[frames[Len(frames)].f].stack_size >= 24

\* the offsets from rbp of the cells the pushes of ops write, for ops run
\* from rsp = rbp + off
RECURSIVE PushOffsets(_, _, _)
PushOffsets(ops, i, off) ==
    IF i > Len(ops) THEN {}
    ELSE IF ops[i].o = "push_reg"
    THEN {off - 8} \cup PushOffsets(ops, i + 1, off - 8)
    ELSE IF ops[i].o = "add_rsp" THEN PushOffsets(ops, i + 1, off + ops[i].a)
    ELSE PushOffsets(ops, i + 1, off)

\* where the registers saved on entry are kept, relative to rbp: the pushes
\* of the prologue after `mov rbp, rsp` and those that follow it
SavedOffsets == PushOffsets(SubSeq(Prologue, 3, Len(Prologue)) \o FrameEnter(0), 1, 0)

TopFrame == frames[Len(frames)]
InBody == Running /\ frames # <<>> /\ TopFrame.pi >= 1

\* the spill slots of the running function
SpillOffsets(f) == {meta[f].map[op].v : op \in {x \in DOMAIN meta[f].map : meta[f].map[x].k = "spill"}}

\* C26: every spill slot lies in the frame of its function, below the saved
\* registers and at or above the stack pointer: a store to a spill slot
\* never hits the return address, the saved rbp or a cell holding a saved
\* register that is popped later; distinct spilled operands have distinct
\* slots; and a push made around a call never hits a spill slot.
C26_SpillSlotsInFrame ==
    /\ (InBody /\ code[cpu.pc].o = "mov_stack_reg") =>
          /\ code[cpu.pc].a \notin SavedOffsets \cup {0, 8}
          /\ cpu.rbp + code[cpu.pc].a >= cpu.rsp
          /\ code[cpu.pc].a < 0
    /\ \A f \in DOMAIN meta :
          \A a, b \in DOMAIN meta[f].map :
             (a # b /\ meta[f].map[a].k = "spill" /\ meta[f].map[b].k = "spill")
                => meta[f].map[a] # meta[f].map[b]
    /\ (InBody /\ code[cpu.pc].o = "push_reg") =>
          (cpu.rsp - 8) - cpu.rbp \notin SpillOffsets(TopFrame.f)

\* no enabled pass changes the function
AtFixedPoint(instrs, lvl) ==
    /\ remove_identity_moves(instrs) = instrs
    /\ constant_folding(instrs) = instrs
    /\ dead_code_elimination(instrs) = instrs
    /\ lvl >= 3 => vectorize_loop(instrs) = instrs
    /\ lvl >= 2 => loop_unrolling(instrs) = instrs

\* C24: optimize_function terminates for every function and every level
\* 0..3: it returns, and when it has returned no enabled pass would change
\* the function.
C24_ReachesFixedPoint ==
    /\ <>(opPc = "returned")
    /\ [](opPc = "returned" => AtFixedPoint(opFunc, opIn.lvl))

\* the update just made went to arm a of bucket b
BdUpdated(b, a) ==
    bdN' = bdN + 1 /\ bdReq'.bucket = b /\ bdReq'.idx = a

\* alpha / (alpha + beta) of arm a of bucket b grew in this step
MeanGrew(b, a) ==
    bdTab'.succ[b][a] * (bdTab.succ[b][a] + bdTab.fail[b][a])
        > bdTab.succ[b][a] * (bdTab'.succ[b][a] + bdTab'.fail[b][a])

C22_CountersPositive ==
    /\ \A b \in SizeBuckets, a \in TsArms :
          bdTab.succ[b][a] > 0 /\ bdTab.fail[b][a] > 0
    /\ (bdN > 0 /\ bdReq.idx \in TsArms) => (bdReq.ratio > 0 /\ bdReq.ratio <= 4)

\* C20: generate_variants returns Ok or Err for every program and never
\* panics: a configuration whose compilation fails is skipped and the other
\* configurations are still compiled, so that on return every configuration
\* is either among the variants or was skipped.
C20_NeverPanics ==
    /\ gvStatus # "panicked"
    /\ gvStatus \in {"Ok", "Err"} =>
          Range(gvVariants) \cup gvSkipped = DOMAIN GvConfigs

\* C19: vec_add_i64(a, b, c) with n the least of the three lengths leaves
\* c[k] = a[k] + b[k] for every k < n, stores to each such k exactly once, and
\* neither loads nor stores an element at an index >= n, whatever n is
\* modulo 16 and modulo 4.
C19_VecAddCovers ==
    /\ \A k \in vaReads : k < vaN
    /\ \A k \in VecCells : k >= vaN => vaLog[k] = <<>> /\ vaC[k] = -1
    /\ \A k \in VecCells : Len(vaLog[k]) <= 1
    /\ vaPc = "done" =>
          \A k \in 0..(vaN - 1) : vaC[k] = VecA(k) + VecB(k) /\ Len(vaLog[k]) = 1

\* a call finished in which the 16-wide loop, the 4-wide loop and the scalar
\* cleanup each stored some element
C19_Witness ==
    /\ vaPc = "done"
    /\ \A by \in {"w16", "w4", "s"} : \E k \in 0..(vaN - 1) : vaLog[k] = <<by>>

\* C18: in a call f(x1..xk), k <= 4, the callee's i-th parameter holds the
\* value the caller passed as xi, and the caller's destination operand
\* receives the value the callee returned, whatever registers the allocator
\* chose.
C18_CallConvention ==
    AtInstr =>
        /\ (Len(frames) >= 2 /\ Top.pi - 1 \in DOMAIN meta[Top.f].instrs /\ Previous.op = "LoadArg")
              => Top.vals[Previous.dest.n] = Passed(Previous.k)
        /\ Top.after # 0
              => Top.vals[meta[Top.f].instrs[Top.after].dest.n] = cpu.reg[0]

\* C9: after the run of the vectorized loop (level 3), c[k] = a[k] + b[k]
\* for every k below n, whatever n is modulo 4.
C9_VectorizedSum ==
    (prog = 1 /\ Len(results) = 4 /\ results[4].status = "returned")
        => \A k \in 0..(arg - 1) : results[4].out[k] = 11 * (k + 1)

(***************************************************************************)
(* Claims on ThreadSafeOptimizer                                           *)
(***************************************************************************)
TsQuiet == \A t \in TsThreads : tsPc[t] = "idle"

\* C11: whenever no update() is in progress, every arm's successes (alpha)
\* and failures (beta) are those of the updates applied one at a time in the
\* order they took the lock: none is lost, none is applied in part.
C11_SerializedUpdates ==
    TsQuiet => (tsSucc = tsSerial.succ /\ tsFail = tsSerial.fail)

\* two threads have each completed an update, two of the updates went to the
\* same arm of the same bucket, and one thread had to wait for the other
C11_Witness ==
    /\ \A t \in TsThreads : tsDone[t] >= 1
    /\ \E b \in SizeBuckets, a \in TsArms : tsSucc[b][a] + tsFail[b][a] >= 16
    /\ \E t \in TsThreads : tsPc[t] = "idle" /\ tsLock # 0

RECURSIVE SelSum(_, _)
SelSum(b, n) == IF n = 0 THEN 0 ELSE tsSel[b][n - 1] + SelSum(b, n - 1)

FuelOp(op) ==
    \/ op.o = "mov_reg_imm" /\ op.a = 5 /\ op.b = Fuel
    \/ op.o = "dec_reg" /\ op.a = 5
    \/ op.o = "pop_reg" /\ op.a = 5

\* the step is a jump of the running function to an earlier position
JumpsBack ==
    /\ Running
    /\ code[cpu.pc].o \in {"jmp", "jz", "jnz", "Je", "Jne", "Jl", "Jle", "Jg", "Jge"}
    /\ cpu'.status = "run"
    /\ cpu'.pc <= cpu.pc

\* the position is a label followed by the decrement and the test of the fuel
FuelChecked(q) ==
    /\ q + 2 \in DOMAIN code
    /\ code[q].o = "ir" /\ code[q].l # ""
    /\ code[q + 1].o = "dec_reg" /\ code[q + 1].a = 5
    /\ code[q + 2].o = "jz"

\* C27: every jump back inside a compiled function lands on a label where
\* the fuel register is decremented and tested, so every cycle passes one;
\* no operand is allocated to the fuel register, and the only instructions
\* that change it are its initialisation, its decrement and its restore.
C27_FuelGuardsCycles ==
    /\ [](\A f \in DOMAIN meta : \A x \in DOMAIN meta[f].map :
             meta[f].map[x] # LocRegister(5))
    /\ [][/\ JumpsBack => FuelChecked(cpu'.pc)
          /\ (Running /\ cpu'.reg[5] # cpu.reg[5]) => FuelOp(code[cpu.pc])]_vars

\* a loop header is passed for the second time in one invocation
C27_Witness ==
    /\ Running
    /\ code[cpu.pc].o = "jz"
    /\ cpu.pc - 2 \in DOMAIN code /\ FuelChecked(cpu.pc - 2)
    /\ cpu.reg[5] = Fuel - 2

\* C28: whenever GLOBAL_JMP_BUF is not null it names the buffer of a
\* run_safely invocation that is still in progress, and signal_handler has
\* never jumped to the buffer of an invocation that is over.
C28_RecoveryPointLive ==
    /\ rsBuf # NullBuf =>
          \E t \in RsThreads : \E k \in DOMAIN rsStack[t] : rsStack[t][k].id = rsBuf
    /\ rsJump # "dead"

\* the lists liveness_analysis can return for the intervals of list: the
\* stable sort by start keeps intervals of equal start in the order the
\* HashSet of operands yielded them
StableOrders(list) ==
    {p \in [DOMAIN list -> Range(list)] :
        /\ Range(p) = Range(list)
        /\ \A i, j \in DOMAIN p : i < j => p[i].start <= p[j].start}

\* C29: register allocation does not depend on the order in which intervals
\* of equal start are processed: every order the hash set can yield gives
\* the same operand-to-location map and the same number of spill slots.
C29_AllocationDeterministic ==
    aPhase = "done" =>
       \A other \in StableOrders(aIntervals) :
          \E r \in {AllocateRegisters(other, AllocPool, CalleeSavedSize)} :
             r.map = aState.map /\ r.slots = aState.slots

\* the ModR/M byte follows the four prefix bytes and the opcode
EvMod == evBuf[6] \div 64
\* a SIB byte follows when rm = 100 and mod is not 11
EvHasSib == EvMod # 3 /\ evBuf[6] % 8 = 4
\* the bytes after ModR/M and SIB
EvDispLen == Len(evBuf) - 6 - (IF EvHasSib THEN 1 ELSE 0)

\* C30: in the bytes of a 512-bit load or store the mod field is 00, 01 or
\* 10 exactly when no, one or four displacement bytes follow, and a single
\* displacement byte is emitted only for a multiple of 64 between -128 * 64
\* and 127 * 64, and is then the displacement divided by 64.
C30_DisplacementConsistent ==
    evBuf # <<>> =>
       /\ EvDispLen \in {0, 1, 4}
       /\ EvMod = 0 <=> EvDispLen = 0
       /\ EvMod = 1 <=> EvDispLen = 1
       /\ EvMod = 2 <=> EvDispLen = 4
       /\ EvDispLen = 1 =>
             /\ evIn.disp % 64 = 0
             /\ evIn.disp >= -128 * 64 /\ evIn.disp <= 127 * 64
             /\ evBuf[Len(evBuf)] = (evIn.disp \div 64) % 256

====
